---- MODULE Spec2Model ----
(***************************************************************************)
(* Analysis-and-resolution pipeline of stinercut3:                         *)
(*   backend/services/video_analyzer/segment_detector.py  (SegmentDetector)*)
(*   backend/services/video_analyzer/jump_resolver.py     (JumpResolver)   *)
(*   backend/services/video_analyzer/analyzer.py          (VideoAnalyzer)  *)
(*                                                                         *)
(* Times are whole seconds.  Confidences are fixed-point numbers, ConfOne  *)
(* standing for 1.0; a mean is the truncated quotient.                     *)
(***************************************************************************)
EXTENDS Integers, Sequences, FiniteSets, TLC

VARIABLES
    \* ---- SegmentDetector -------------------------------------------------
    classifications,        \* argument of detect_segments: list of FrameClassification
    qr_end_time,            \* argument of detect_segments: marker end time or None
    min_segment_duration,   \* SegmentDetector.min_segment_duration
    raw_segments,           \* the segment list handed to _merge_short_segments
    segments,               \* the current segment list
    dominant,               \* the dominant label computed for `segments`
    passes,                 \* how often _merge_short_segments has been applied
    sd_smoothed,            \* smoothed of detect_segments
    sd_pc,                  \* position of the segment-detector caller
    \* ---- JumpResolver.resolve_jumps ---------------------------------------
    rs_files,               \* argument of resolve_jumps: list of VideoFile
    rs_result,              \* the ResolutionResult returned
    rs_pc,                  \* position of the resolver's caller
    \* ---- VideoAnalyzer.analyze_folder -------------------------------------
    pc,                     \* position of analyze_folder
    runs_left,              \* how many more calls of analyze_folder are explored
    source_dir_exists,      \* the import folder is a directory
    location,               \* video file -> name of the folder it lies in
    batch,                  \* the ImportBatch row of the folder, or NoBatch
    records,                \* the VideoFile rows, in order of their ids
    task,                   \* record id -> state of its future in the pool
    results,                \* record id -> result dict its worker returned
    collected,              \* futures the as_completed loop has consumed
    success_count,          \* success_count of _analyze_files_parallel
    resolution,             \* the ResolutionResult of this run
    exec,                   \* progress of execute_resolution
    events,                 \* events handed to progress_callback, in order
    \* ---- two _run_analysis tasks for one folder ---------------------------
    run,                    \* task -> state of its analyze_folder
    loop,                   \* the task the event loop is running, or NoTask
    \* ---- MLClassifier.classify_video_adaptive -----------------------------
    video,                  \* what the capture of video_path delivers
    coarse_interval,        \* argument of classify_video_adaptive
    fine_interval,          \* argument of classify_video_adaptive
    all_results,            \* the list returned
    ac_pc,                  \* position of the classifier's caller
    \* ---- the shared classifier and its model ------------------------------
    classifier_instance,    \* _classifier_instance of ml_classifier
    model,                  \* MLClassifier._model
    load_count,             \* completed calls of load_model
    thread,                 \* thread -> its position
    \* ---- JumpResolver.execute_resolution on a directory tree --------------
    disk,                   \* the files (path -> content) and directories there are
    file_records,           \* the VideoFile objects of the session
    ex_mappings,            \* result.mappings
    ex                      \* position and locals of execute_resolution

segVars == <<classifications, qr_end_time, min_segment_duration, raw_segments,
             segments, dominant, passes, sd_pc, sd_smoothed>>

rsVars == <<rs_files, rs_result, rs_pc>>

pipeVars == <<pc, runs_left, source_dir_exists, location, batch, records, task,
              results, collected, success_count, resolution, exec, events>>

coVars == <<run, loop>>

acVars == <<video, coarse_interval, fine_interval, all_results, ac_pc>>

ldVars == <<classifier_instance, model, load_count, thread>>

exVars == <<disk, file_records, ex_mappings, ex>>

restVars == <<coVars, acVars, ldVars, exVars>>

vars == <<segVars, rsVars, pipeVars, restVars>>

None == "None"      \* None in a string-valued field
NoTime == -1        \* None in a time-valued field

\* ---------------------------------------------------------------------------
\* Bounds of the explored inputs
\* ---------------------------------------------------------------------------
MaxSamples == 4     \* longest classification sequence drawn
MaxQrEnd == 3       \* largest marker end time drawn
MaxSegs == 4        \* longest segment list drawn for _merge_short_segments
MaxSegLen == 2      \* longest single segment drawn
MaxMinDur == 3      \* largest min_segment_duration drawn

\* ---------------------------------------------------------------------------
\* Program constants
\* ---------------------------------------------------------------------------
smoothing_window == 3
DefaultMinSegmentDuration == 3
ConfOne == 1000

CATEGORIES == {"boden", "canopy", "freefall", "in_plane"}

Labels == {"freefall", "canopy", "flight", "ground_before", "ground_after",
           "qr_code", "unknown"}

\* The list with the elements f[1], ..., f[n], built once.
List(f) == <<>> \o f

Min(a, b) == IF a < b THEN a ELSE b
Max(a, b) == IF a > b THEN a ELSE b

RECURSIVE SumSeq(_)
SumSeq(s) == IF s = <<>> THEN 0 ELSE Head(s) + SumSeq(Tail(s))

Mean(confs) == SumSeq(confs) \div Len(confs)

VideoSegment(st, en, cl, cf) ==
    [start_time |-> st, end_time |-> en, classification |-> cl,
     confidence |-> cf, sequence_order |-> 0]

FrameClassification(ts, cat, cf) ==
    [timestamp |-> ts, category |-> cat, confidence |-> cf]

CATEGORY_MAP(c) ==
    CASE c = "freefall" -> "freefall"
      [] c = "canopy"   -> "canopy"
      [] c = "in_plane" -> "flight"
      [] c = "boden"    -> "ground"
      [] OTHER          -> "unknown"

\* Counter(categories).most_common(1)[0][0]: the first-seen category among
\* those of greatest count.
CountOf(s, c) == Cardinality({i \in DOMAIN s : s[i] = c})

MostCommon(window) ==
    LET best == CHOOSE i \in DOMAIN window :
                  /\ \A j \in DOMAIN window :
                        CountOf(window, window[j]) <= CountOf(window, window[i])
                  /\ \A j \in 1..(i - 1) :
                        CountOf(window, window[j]) < CountOf(window, window[i])
    IN window[best]

ApplySmoothing(clfs) ==
    IF Len(clfs) <= smoothing_window THEN clfs
    ELSE LET half_window == smoothing_window \div 2
         IN List([i \in 1..Len(clfs) |->
               LET start == Max(1, i - half_window)
                   end == Min(Len(clfs), i + half_window)
                   window == [k \in 1..(end - start + 1) |->
                                 clfs[start + k - 1].category]
                   most_common == MostCommon(window)
               IN IF most_common = clfs[i].category THEN clfs[i]
                  ELSE FrameClassification(clfs[i].timestamp, most_common,
                                           clfs[i].confidence)])

MapCategories(clfs) ==
    List([i \in 1..Len(clfs) |->
        FrameClassification(clfs[i].timestamp, CATEGORY_MAP(clfs[i].category),
                            clfs[i].confidence)])

\* Variant: the final segment ends at the last sample instead of one second
\* after it.
RECURSIVE BoundariesFromShort(_, _, _, _, _, _)
BoundariesFromShort(mapped, i, segs, current_start, current_category, confs) ==
    IF i > Len(mapped)
    THEN Append(segs, VideoSegment(current_start,
                                   mapped[Len(mapped)].timestamp,
                                   current_category, Mean(confs)))
    ELSE IF mapped[i].category # current_category
    THEN BoundariesFromShort(mapped, i + 1,
                        Append(segs, VideoSegment(current_start,
                                                  mapped[i].timestamp,
                                                  current_category, Mean(confs))),
                        mapped[i].timestamp, mapped[i].category,
                        <<mapped[i].confidence>>)
    ELSE BoundariesFromShort(mapped, i + 1, segs, current_start, current_category,
                        Append(confs, mapped[i].confidence))

RECURSIVE BoundariesFrom(_, _, _, _, _, _)
BoundariesFrom(mapped, i, segs, current_start, current_category, confs) ==
    IF i > Len(mapped)
    THEN Append(segs, VideoSegment(current_start,
                                   mapped[Len(mapped)].timestamp + 1,
                                   current_category, Mean(confs)))
    ELSE IF mapped[i].category # current_category
    THEN BoundariesFrom(mapped, i + 1,
                        Append(segs, VideoSegment(current_start,
                                                  mapped[i].timestamp,
                                                  current_category, Mean(confs))),
                        mapped[i].timestamp, mapped[i].category,
                        <<mapped[i].confidence>>)
    ELSE BoundariesFrom(mapped, i + 1, segs, current_start, current_category,
                        Append(confs, mapped[i].confidence))

DetectBoundaries(mapped) ==
    IF mapped = <<>> THEN <<>>
    ELSE BoundariesFrom(mapped, 2, <<>>, mapped[1].timestamp,
                        mapped[1].category, <<mapped[1].confidence>>)

\* Variant: a short segment followed by one of its own label is appended
\* together with it at once, and the loop steps over both.
RECURSIVE MergeFromSkip(_, _, _, _)
MergeFromSkip(segs, merged, i, min_dur) ==
    IF i > Len(segs) THEN merged
    ELSE
      LET seg == segs[i]
          duration == seg.end_time - seg.start_time
          n == Len(merged)
          extendPrev == [merged EXCEPT ![n].end_time = seg.end_time]
      IN IF duration < min_dur /\ i > 1 /\ i < Len(segs)
         THEN IF n > 0 /\ merged[n].classification = seg.classification
              THEN MergeFromSkip(segs, extendPrev, i + 1, min_dur)
              ELSE IF segs[i + 1].classification = seg.classification
              THEN MergeFromSkip(segs,
                     Append(merged,
                        VideoSegment(seg.start_time, segs[i + 1].end_time,
                                     segs[i + 1].classification,
                                     (seg.confidence + segs[i + 1].confidence) \div 2)),
                     i + 2, min_dur)
              ELSE IF n > 0
              THEN MergeFromSkip(segs, extendPrev, i + 1, min_dur)
              ELSE MergeFromSkip(segs, Append(merged, seg), i + 1, min_dur)
         ELSE IF n > 0 /\ merged[n].classification = seg.classification
              THEN MergeFromSkip(segs,
                     [merged EXCEPT ![n].end_time = seg.end_time,
                                    ![n].confidence =
                                        (merged[n].confidence + seg.confidence) \div 2],
                     i + 1, min_dur)
              ELSE MergeFromSkip(segs, Append(merged, seg), i + 1, min_dur)

\* Variant: a short segment without a neighbour of its own label is absorbed
\* by the segment that follows it.
RECURSIVE MergeFromForward(_, _, _, _)
MergeFromForward(segs, merged, i, min_dur) ==
    IF i > Len(segs) THEN merged
    ELSE
      LET seg == segs[i]
          duration == seg.end_time - seg.start_time
          n == Len(merged)
          extendPrev == [merged EXCEPT ![n].end_time = seg.end_time]
      IN IF duration < min_dur /\ i > 1 /\ i < Len(segs)
         THEN IF n > 0 /\ merged[n].classification = seg.classification
              THEN MergeFromForward(segs, extendPrev, i + 1, min_dur)
              ELSE IF segs[i + 1].classification = seg.classification
              THEN MergeFromForward(
                     [segs EXCEPT ![i + 1] =
                        VideoSegment(seg.start_time, segs[i + 1].end_time,
                                     segs[i + 1].classification,
                                     (seg.confidence + segs[i + 1].confidence) \div 2)],
                     merged, i + 1, min_dur)
              ELSE MergeFromForward(
                     [segs EXCEPT ![i + 1].start_time = seg.start_time],
                     merged, i + 1, min_dur)
         ELSE IF n > 0 /\ merged[n].classification = seg.classification
              THEN MergeFromForward(segs,
                     [merged EXCEPT ![n].end_time = seg.end_time,
                                    ![n].confidence =
                                        (merged[n].confidence + seg.confidence) \div 2],
                     i + 1, min_dur)
              ELSE MergeFromForward(segs, Append(merged, seg), i + 1, min_dur)

\* One iteration of the while loop of _merge_short_segments at index i
\* (1-based); segs is the input list as the loop has rewritten it so far.
RECURSIVE MergeFrom(_, _, _, _)
MergeFrom(segs, merged, i, min_dur) ==
    IF i > Len(segs) THEN merged
    ELSE
      LET seg == segs[i]
          duration == seg.end_time - seg.start_time
          n == Len(merged)
          extendPrev == [merged EXCEPT ![n].end_time = seg.end_time]
      IN IF duration < min_dur /\ i > 1 /\ i < Len(segs)
         THEN IF n > 0 /\ merged[n].classification = seg.classification
              THEN MergeFrom(segs, extendPrev, i + 1, min_dur)
              ELSE IF segs[i + 1].classification = seg.classification
              THEN MergeFrom(
                     [segs EXCEPT ![i + 1] =
                        VideoSegment(seg.start_time, segs[i + 1].end_time,
                                     segs[i + 1].classification,
                                     (seg.confidence + segs[i + 1].confidence) \div 2)],
                     merged, i + 1, min_dur)
              ELSE IF n > 0
              THEN MergeFrom(segs, extendPrev, i + 1, min_dur)
              ELSE MergeFrom(segs, Append(merged, seg), i + 1, min_dur)
         ELSE IF n > 0 /\ merged[n].classification = seg.classification
              THEN MergeFrom(segs,
                     [merged EXCEPT ![n].end_time = seg.end_time,
                                    ![n].confidence =
                                        (merged[n].confidence + seg.confidence) \div 2],
                     i + 1, min_dur)
              ELSE MergeFrom(segs, Append(merged, seg), i + 1, min_dur)

MergeShortSegments(segs, min_dur) ==
    IF Len(segs) <= 1 THEN segs ELSE MergeFrom(segs, <<>>, 1, min_dur)

RECURSIVE RefineFrom(_, _, _)
RefineFrom(segs, i, jump_occurred) ==
    IF i > Len(segs) THEN segs
    ELSE IF segs[i].classification \in {"freefall", "canopy"}
    THEN RefineFrom(segs, i + 1, TRUE)
    ELSE IF segs[i].classification = "ground"
    THEN RefineFrom([segs EXCEPT ![i].classification =
                        IF jump_occurred THEN "ground_after" ELSE "ground_before"],
                    i + 1, jump_occurred)
    ELSE RefineFrom(segs, i + 1, jump_occurred)

RefineGroundClassifications(segs) == RefineFrom(segs, 1, FALSE)

\* Variant: the split keeps the first segment's start where it was.
AddQrSegmentNoTrim(segs, qr_end) ==
    LET qr_segment == VideoSegment(0, qr_end, "qr_code", ConfOne)
    IN IF segs = <<>> THEN <<qr_segment>>
       ELSE IF segs[1].start_time < qr_end
       THEN IF segs[1].end_time <= qr_end
            THEN [segs EXCEPT ![1].classification = "qr_code",
                              ![1].start_time = 0]
            ELSE <<qr_segment>> \o segs
       ELSE <<qr_segment>> \o segs

AddQrSegment(segs, qr_end) ==
    LET qr_segment == VideoSegment(0, qr_end, "qr_code", ConfOne)
    IN IF segs = <<>> THEN <<qr_segment>>
       ELSE IF segs[1].start_time < qr_end
       THEN IF segs[1].end_time <= qr_end
            THEN [segs EXCEPT ![1].classification = "qr_code",
                              ![1].start_time = 0]
            ELSE <<qr_segment>> \o [segs EXCEPT ![1].start_time = qr_end]
       ELSE <<qr_segment>> \o segs

AssignSequenceOrders(segs) ==
    List([i \in 1..Len(segs) |-> [segs[i] EXCEPT !.sequence_order = i - 1]])

\* Variant: canopy and flight share a priority.
PriorityTypo(classification) ==
    CASE classification = "freefall"      -> 6
      [] classification = "canopy"        -> 4
      [] classification = "flight"        -> 4
      [] classification = "ground_before" -> 3
      [] classification = "ground_after"  -> 2
      [] classification = "qr_code"       -> 1
      [] OTHER                            -> 0

Priority(classification) ==
    CASE classification = "freefall"      -> 6
      [] classification = "canopy"        -> 5
      [] classification = "flight"        -> 4
      [] classification = "ground_before" -> 3
      [] classification = "ground_after"  -> 2
      [] classification = "qr_code"       -> 1
      [] OTHER                            -> 0

\* The durations dict of _calculate_dominant, as the list of its keys in
\* insertion order (order of first occurrence) and the total per key.
DurationKeys(segs) ==
    LET firsts == {i \in DOMAIN segs :
                     \A j \in 1..(i - 1) :
                        segs[j].classification # segs[i].classification}
        rank(i) == Cardinality({j \in firsts : j <= i})
    IN [k \in 1..Cardinality(firsts) |->
          segs[CHOOSE i \in firsts : rank(i) = k].classification]

RECURSIVE TotalDuration(_, _)
TotalDuration(segs, cl) ==
    IF segs = <<>> THEN 0
    ELSE (IF Head(segs).classification = cl
          THEN Head(segs).end_time - Head(segs).start_time ELSE 0)
         + TotalDuration(Tail(segs), cl)

RECURSIVE DominantFrom(_, _, _, _, _)
DominantFrom(segs, keys, k, best_classification, best_duration) ==
    IF k > Len(keys) THEN best_classification
    ELSE LET cl == keys[k]
             duration == TotalDuration(segs, cl)
         IN IF Priority(cl) > Priority(best_classification)
            THEN DominantFrom(segs, keys, k + 1, cl, duration)
            ELSE IF Priority(cl) = Priority(best_classification)
                    /\ duration > best_duration
            THEN DominantFrom(segs, keys, k + 1, cl, duration)
            ELSE DominantFrom(segs, keys, k + 1, best_classification, best_duration)

CalculateDominant(segs) ==
    IF segs = <<>> THEN "unknown"
    ELSE DominantFrom(segs, DurationKeys(segs), 1, "unknown", 0)

\* detect_segments: <<segments, dominant>>
DetectSegmentsResult(clfs, qr_end, min_dur) ==
    IF clfs = <<>> THEN <<<<>>, "unknown">>
    ELSE LET smoothed == ApplySmoothing(clfs)
             mapped == MapCategories(smoothed)
             raw == DetectBoundaries(mapped)
             merged == MergeShortSegments(raw, min_dur)
             refined == RefineGroundClassifications(merged)
             withQr == IF qr_end # NoTime /\ qr_end # 0 /\ qr_end > 0
                       THEN AddQrSegment(refined, qr_end) ELSE refined
             ordered == AssignSequenceOrders(withQr)
         IN <<ordered, CalculateDominant(ordered)>>


\* ---------------------------------------------------------------------------
\* JumpResolver
\* ---------------------------------------------------------------------------
\* A VideoFile as the resolver reads it.
VideoFile(id, recorded, created, uuid, dom) ==
    [id |-> id, recorded_at |-> recorded, created_at |-> created,
     detected_workload_uuid |-> uuid, dominant_classification |-> dom]

JumpMapping(uuid, fs) ==
    [workload_uuid |-> uuid, files |-> fs, folder_name |-> None]

\* The message of a ResolutionResult: its wording and the numbers set into it.
Message(text, numbers) == [text |-> text, numbers |-> numbers]
NoMessage == Message("None", <<>>)

ResolutionResult(status, type, message, mappings, uuids, count) ==
    [status |-> status, resolution_type |-> type, message |-> message,
     mappings |-> mappings, detected_qr_uuids |-> uuids,
     freefall_count |-> count]

NoResult == ResolutionResult("None", "None", NoMessage, <<>>, {}, 0)

\* bool(f.detected_workload_uuid)
HasUuid(f) == f.detected_workload_uuid # None /\ f.detected_workload_uuid # ""

\* key=lambda f: f.recorded_at or f.created_at
SortKey(f) == IF f.recorded_at # NoTime THEN f.recorded_at ELSE f.created_at

RECURSIVE InsertSorted(_, _)
InsertSorted(sorted, f) ==
    IF sorted = <<>> THEN <<f>>
    ELSE IF SortKey(Head(sorted)) <= SortKey(f)
    THEN <<Head(sorted)>> \o InsertSorted(Tail(sorted), f)
    ELSE <<f>> \o sorted

\* sorted(files, key=...): stable
RECURSIVE SortedFiles(_)
SortedFiles(files) ==
    IF files = <<>> THEN <<>>
    ELSE InsertSorted(SortedFiles(SubSeq(files, 1, Len(files) - 1)),
                      files[Len(files)])

\* Variant: every file that is not freefall-dominant ends the sequence.
RECURSIVE CountFromAnyEnds(_, _, _, _)
CountFromAnyEnds(sorted_files, i, freefall_count, in_freefall_sequence) ==
    IF i > Len(sorted_files) THEN freefall_count
    ELSE LET file == sorted_files[i]
             has_freefall == file.dominant_classification = "freefall"
         IN IF has_freefall /\ ~in_freefall_sequence
            THEN CountFromAnyEnds(sorted_files, i + 1, freefall_count + 1, TRUE)
            ELSE IF ~has_freefall
            THEN CountFromAnyEnds(sorted_files, i + 1, freefall_count, FALSE)
            ELSE CountFromAnyEnds(sorted_files, i + 1, freefall_count,
                                  in_freefall_sequence)

RECURSIVE CountFrom(_, _, _, _)
CountFrom(sorted_files, i, freefall_count, in_freefall_sequence) ==
    IF i > Len(sorted_files) THEN freefall_count
    ELSE LET file == sorted_files[i]
             has_freefall == file.dominant_classification = "freefall"
         IN IF has_freefall /\ ~in_freefall_sequence
            THEN CountFrom(sorted_files, i + 1, freefall_count + 1, TRUE)
            ELSE IF ~has_freefall
                    /\ file.dominant_classification \in {"canopy", "ground_after"}
            THEN CountFrom(sorted_files, i + 1, freefall_count, FALSE)
            ELSE CountFrom(sorted_files, i + 1, freefall_count,
                           in_freefall_sequence)

CountFreefallSegments(files) == CountFrom(SortedFiles(files), 1, 0, FALSE)

RECURSIVE MapFrom(_, _, _, _, _)
MapFrom(sorted_files, i, mappings, current_qr, current_jump_files) ==
    IF i > Len(sorted_files)
    THEN IF current_qr # None /\ current_jump_files # <<>>
         THEN Append(mappings, JumpMapping(current_qr, current_jump_files))
         ELSE mappings
    ELSE LET file == sorted_files[i]
         IN IF HasUuid(file) /\ file.detected_workload_uuid # current_qr
            THEN MapFrom(sorted_files, i + 1,
                         IF current_qr # None /\ current_jump_files # <<>>
                         THEN Append(mappings,
                                     JumpMapping(current_qr, current_jump_files))
                         ELSE mappings,
                         file.detected_workload_uuid, <<file.id>>)
            ELSE MapFrom(sorted_files, i + 1, mappings, current_qr,
                         Append(current_jump_files, file.id))

MapQrToFreefalls(files) == MapFrom(SortedFiles(files), 1, <<>>, None, <<>>)

QrUuids(files) ==
    {files[i].detected_workload_uuid : i \in {k \in DOMAIN files : HasUuid(files[k])}}

FileIds(files) == List([i \in 1..Len(files) |-> files[i].id])

\* Variant: the missing-marker row no longer asks for exactly one freefall.
ResolveJumpsLoose(files) ==
    LET qr_uuids == QrUuids(files)
        freefall_count == CountFreefallSegments(files)
        qr_count == Cardinality(qr_uuids)
    IN IF qr_count = 1 /\ freefall_count = 1
       THEN ResolutionResult("resolved", "auto_single", NoMessage,
                <<JumpMapping(CHOOSE u \in qr_uuids : TRUE, FileIds(files))>>,
                qr_uuids, freefall_count)
       ELSE IF qr_count = freefall_count /\ qr_count > 1
       THEN ResolutionResult("resolved", "auto_multi", NoMessage,
                MapQrToFreefalls(files), qr_uuids, freefall_count)
       ELSE IF qr_count = 0
       THEN ResolutionResult("needs_manual", "missing_qr",
                Message("Single jump detected but no QR code found. Manual workload assignment needed.", <<>>),
                <<>>, {}, freefall_count)
       ELSE ResolutionResult("needs_manual", "ambiguous",
                Message("Found {qr_count} QR codes but {freefall_count} freefalls. Manual splitting required.",
                        <<qr_count, freefall_count>>),
                <<>>, qr_uuids, freefall_count)

\* resolve_jumps(files)
ResolveJumps(files) ==
    LET qr_uuids == QrUuids(files)
        freefall_count == CountFreefallSegments(files)
        qr_count == Cardinality(qr_uuids)
    IN IF qr_count = 1 /\ freefall_count = 1
       THEN ResolutionResult("resolved", "auto_single", NoMessage,
                <<JumpMapping(CHOOSE u \in qr_uuids : TRUE, FileIds(files))>>,
                qr_uuids, freefall_count)
       ELSE IF qr_count = freefall_count /\ qr_count > 1
       THEN ResolutionResult("resolved", "auto_multi", NoMessage,
                MapQrToFreefalls(files), qr_uuids, freefall_count)
       ELSE IF qr_count = 0 /\ freefall_count = 1
       THEN ResolutionResult("needs_manual", "missing_qr",
                Message("Single jump detected but no QR code found. Manual workload assignment needed.", <<>>),
                <<>>, {}, freefall_count)
       ELSE ResolutionResult("needs_manual", "ambiguous",
                Message("Found {qr_count} QR codes but {freefall_count} freefalls. Manual splitting required.",
                        <<qr_count, freefall_count>>),
                <<>>, qr_uuids, freefall_count)

\* ---------------------------------------------------------------------------
\* Inputs of the segment detector
\* ---------------------------------------------------------------------------
ConfHigh == 900
ConfStep == 100

\* The distances drawn between two successive samples.
SampleGaps == {1, 2}

\* The confidence drawn for the i-th element: all different.
ConfAt(i) == ConfHigh - ConfStep * i

RECURSIVE TimeOf(_, _, _)
TimeOf(first, gaps, i) ==
    IF i = 1 THEN first ELSE TimeOf(first, gaps, i - 1) + gaps[i - 1]

SegIdle ==
    /\ classifications = <<>>
    /\ qr_end_time = NoTime
    /\ min_segment_duration = DefaultMinSegmentDuration
    /\ raw_segments = <<>>
    /\ segments = <<>>
    /\ dominant = None
    /\ passes = 0
    /\ sd_smoothed = <<>>
    /\ sd_pc = "idle"

RsIdle ==
    /\ rs_files = <<>>
    /\ rs_result = NoResult
    /\ rs_pc = "idle"

NoBatch == [status |-> "None"]
NoExec == [next |-> 0, resolved_folder_name |-> None, outcome |-> "None",
           attempted |-> <<>>, moved |-> <<>>]

PipeIdle ==
    /\ pc = "idle"
    /\ runs_left = 0
    /\ source_dir_exists = FALSE
    /\ location = <<>>
    /\ batch = NoBatch
    /\ records = <<>>
    /\ task = <<>>
    /\ results = <<>>
    /\ collected = {}
    /\ success_count = 0
    /\ resolution = NoResult
    /\ exec = NoExec
    /\ events = <<>>

NoTask == 0

NoVideo == [opened |-> FALSE, duration |-> 0, scenes |-> <<>>, cuts |-> <<>>,
            readable_until |-> 0]

CoIdle ==
    /\ run = <<>>
    /\ loop = NoTask

AcIdle ==
    /\ video = NoVideo
    /\ coarse_interval = 0
    /\ fine_interval = 0
    /\ all_results = <<>>
    /\ ac_pc = "idle"

LdIdle ==
    /\ classifier_instance = None
    /\ model = None
    /\ load_count = 0
    /\ thread = << >>

ExIdle ==
    /\ disk = << >>
    /\ file_records = <<>>
    /\ ex_mappings = <<>>
    /\ ex = << >>

RestIdle == CoIdle /\ AcIdle /\ LdIdle /\ ExIdle

InitSeg ==
    /\ RsIdle
    /\ PipeIdle
    /\ RestIdle
    /\ \E n \in 0..MaxSamples :
       \E first \in {0, 1}, gaps \in [1..(n - 1) -> SampleGaps],
          cats \in [1..n -> CATEGORIES] :
          classifications =
             List([i \in 1..n |->
                 FrameClassification(TimeOf(first, gaps, i), cats[i], ConfAt(i))])
    /\ qr_end_time \in {NoTime} \cup (0..MaxQrEnd)
    /\ min_segment_duration = DefaultMinSegmentDuration
    /\ raw_segments = <<>>
    /\ segments = <<>>
    /\ dominant = None
    /\ passes = 0
    /\ sd_smoothed = <<>>
    /\ sd_pc = "call"

\* SegmentDetector.detect_segments(classifications, qr_end_time)
DetectSegments ==
    /\ sd_pc = "call"
    /\ LET r == DetectSegmentsResult(classifications, qr_end_time,
                                     min_segment_duration)
       IN /\ segments' = r[1]
          /\ dominant' = r[2]
    /\ sd_pc' = "returned"
    /\ UNCHANGED <<classifications, qr_end_time, min_segment_duration,
                   raw_segments, passes>>
    /\ sd_smoothed' = ApplySmoothing(classifications)
    /\ UNCHANGED rsVars
    /\ UNCHANGED <<pipeVars, restVars>>

NextSeg == DetectSegments

SpecSeg == InitSeg /\ [][NextSeg]_vars

\* C4: for a non-empty classification sequence whose first timestamp is 0 and
\* any marker end time, the segments returned by detect_segments start at 0,
\* are non-empty ranges in time order, each ending where the next starts (no
\* gap, no overlap), and the last one ends one second after the last sample.
CoverageInvariant ==
    (sd_pc = "returned" /\ classifications # <<>>
        /\ classifications[1].timestamp = 0) =>
       /\ segments # <<>>
       /\ segments[1].start_time = 0
       /\ \A i \in 1..Len(segments) :
             segments[i].start_time < segments[i].end_time
       /\ \A i \in 1..(Len(segments) - 1) :
             segments[i].end_time = segments[i + 1].start_time
       /\ segments[Len(segments)].end_time =
             classifications[Len(classifications)].timestamp + 1

\* A run with a marker segment split off the first segment and at least two
\* segments behind it.
CoverageWitness ==
    /\ sd_pc = "returned"
    /\ classifications # <<>>
    /\ classifications[1].timestamp = 0
    /\ qr_end_time > 0
    /\ Len(segments) >= 3
    /\ segments[1].classification = "qr_code"
    /\ segments[1].end_time = qr_end_time

\* ---- Scenario A and its neighbours ----------------------------------------
\* 40 per-second samples: boden up to b1, in_plane up to b2, freefall up to
\* b3, canopy up to b4, boden to the end.
ScenarioSamples(b1, b2, b3, b4) ==
    List([i \in 1..40 |->
        FrameClassification(i - 1,
            IF i - 1 < b1 THEN "boden"
            ELSE IF i - 1 < b2 THEN "in_plane"
            ELSE IF i - 1 < b3 THEN "freefall"
            ELSE IF i - 1 < b4 THEN "canopy"
            ELSE "boden",
            ConfHigh)])

ScenarioA == ScenarioSamples(5, 15, 25, 35)

InitScenarioA ==
    /\ RsIdle
    /\ PipeIdle
    /\ RestIdle
    /\ \E b1 \in 4..6, b2 \in 14..16, b3 \in 24..26, b4 \in 34..36 :
          classifications = ScenarioSamples(b1, b2, b3, b4)
    /\ qr_end_time \in {NoTime, 2, 4, 7}
    /\ min_segment_duration = DefaultMinSegmentDuration
    /\ raw_segments = <<>>
    /\ segments = <<>>
    /\ dominant = None
    /\ passes = 0
    /\ sd_smoothed = <<>>
    /\ sd_pc = "call"

SpecScenarioA == InitScenarioA /\ [][NextSeg]_vars

ScenarioAExpected ==
    << <<0, 4, "qr_code">>, <<4, 5, "ground_before">>, <<5, 15, "flight">>,
       <<15, 25, "freefall">>, <<25, 35, "canopy">>, <<35, 40, "ground_after">> >>

\* C10: Scenario A (40 per-second samples, marker end time 4, smoothing
\* window 3, minimum duration 3) yields the six expected segments with
\* sequence orders 0..5 and the dominant label freefall.
ScenarioAResult ==
    (sd_pc = "returned" /\ classifications = ScenarioA /\ qr_end_time = 4) =>
       /\ Len(segments) = 6
       /\ \A i \in 1..6 :
             /\ segments[i].start_time = ScenarioAExpected[i][1]
             /\ segments[i].end_time = ScenarioAExpected[i][2]
             /\ segments[i].classification = ScenarioAExpected[i][3]
             /\ segments[i].sequence_order = i - 1
       /\ dominant = "freefall"

ScenarioAWitness ==
    /\ sd_pc = "returned"
    /\ classifications = ScenarioA
    /\ qr_end_time = 4
    /\ min_segment_duration = 3
    /\ smoothing_window = 3

\* ---- _merge_short_segments applied repeatedly ------------------------------
MaxPasses == 2
MergeLabels == {"freefall", "canopy", "ground"}

RECURSIVE StartOf(_, _)
StartOf(lens, i) == IF i = 1 THEN 0 ELSE StartOf(lens, i - 1) + lens[i - 1]

InitMerge ==
    /\ RsIdle
    /\ PipeIdle
    /\ RestIdle
    /\ \E n \in 1..MaxSegs :
       \E lens \in [1..n -> 1..MaxSegLen], labs \in [1..n -> MergeLabels] :
          raw_segments =
             List([i \in 1..n |->
                 VideoSegment(StartOf(lens, i), StartOf(lens, i) + lens[i],
                              labs[i], ConfAt(i))])
    /\ segments = raw_segments
    /\ min_segment_duration \in 1..MaxMinDur
    /\ classifications = <<>>
    /\ qr_end_time = NoTime
    /\ dominant = None
    /\ passes = 0
    /\ sd_smoothed = <<>>
    /\ sd_pc = "merge"

\* merged = self._merge_short_segments(segments)
MergeShort ==
    /\ sd_pc = "merge"
    /\ passes < MaxPasses
    /\ segments' = MergeShortSegments(segments, min_segment_duration)
    /\ passes' = passes + 1
    /\ UNCHANGED <<classifications, qr_end_time, min_segment_duration,
                   raw_segments, dominant, sd_pc, sd_smoothed>>
    /\ UNCHANGED rsVars
    /\ UNCHANGED <<pipeVars, restVars>>

NextMerge == MergeShort

SpecMerge == InitMerge /\ [][NextMerge]_vars

\* C8: short-segment merging is idempotent: the list after two (or more)
\* applications is the list after one application, boundaries, labels and
\* confidences alike.
MergeIdempotent ==
    (sd_pc = "merge" /\ passes >= 2) =>
       segments = MergeShortSegments(raw_segments, min_segment_duration)

\* A second application on a list the first application has shortened.
MergeIdempotentWitness ==
    /\ sd_pc = "merge"
    /\ passes = 2
    /\ Len(segments) >= 2
    /\ Len(segments) < Len(raw_segments)

\* ---- _calculate_dominant over reorderings ----------------------------------
MaxDomSegs == 3
DomLens == {1, 2}

InitDominant ==
    /\ RsIdle
    /\ PipeIdle
    /\ RestIdle
    /\ \E n \in 1..MaxDomSegs :
       \E lens \in [1..n -> DomLens], labs \in [1..n -> Labels] :
          segments =
             List([i \in 1..n |->
                 VideoSegment(StartOf(lens, i), StartOf(lens, i) + lens[i],
                              labs[i], ConfHigh)])
    /\ raw_segments = segments
    /\ min_segment_duration = DefaultMinSegmentDuration
    /\ classifications = <<>>
    /\ qr_end_time = NoTime
    /\ dominant = None
    /\ passes = 0
    /\ sd_smoothed = <<>>
    /\ sd_pc = "dominant"

\* dominant = self._calculate_dominant(segments)
CalcDominant ==
    /\ sd_pc = "dominant"
    /\ dominant = None
    /\ dominant' = CalculateDominant(segments)
    /\ UNCHANGED <<classifications, qr_end_time, min_segment_duration,
                   raw_segments, segments, passes, sd_pc, sd_smoothed>>
    /\ UNCHANGED rsVars
    /\ UNCHANGED <<pipeVars, restVars>>

\* The caller hands the same segments over in another order.
Reorder ==
    /\ sd_pc = "dominant"
    /\ dominant # None
    /\ \E i \in 1..(Len(segments) - 1) :
          segments' = [segments EXCEPT ![i] = segments[i + 1],
                                       ![i + 1] = segments[i]]
    /\ UNCHANGED <<classifications, qr_end_time, min_segment_duration,
                   raw_segments, dominant, passes, sd_pc, sd_smoothed>>
    /\ UNCHANGED rsVars
    /\ UNCHANGED <<pipeVars, restVars>>

NextDominant == CalcDominant \/ Reorder

SpecDominant == InitDominant /\ [][NextDominant]_vars

PriorityOrder ==
    <<"freefall", "canopy", "flight", "ground_before", "ground_after",
      "qr_code", "unknown">>

HighestPriorityPresent(segs) ==
    LET present(k) == \E i \in DOMAIN segs : segs[i].classification = PriorityOrder[k]
    IN PriorityOrder[CHOOSE k \in DOMAIN PriorityOrder :
                        present(k) /\ \A j \in 1..(k - 1) : ~present(j)]

\* C9: the dominant label computed for a segment list is the one computed
\* for every reordering of it, and it is the label of highest priority
\* present in the list.
DominantOrderIndependent ==
    (sd_pc = "dominant" /\ dominant # None) =>
       /\ CalculateDominant(segments) = dominant
       /\ dominant = HighestPriorityPresent(segments)

\* A reordered list with at least two labels, the dominant one not in front.
DominantWitness ==
    /\ sd_pc = "dominant"
    /\ dominant # None
    /\ segments # raw_segments
    /\ Len(segments) >= 3
    /\ segments[1].classification # dominant
    /\ segments[2].classification # segments[1].classification

\* ---------------------------------------------------------------------------
\* resolve_jumps over every small file list
\* ---------------------------------------------------------------------------
MaxFiles == 3
Workloads == {"W1", "W2"}
ResolveDominants == {"freefall", "canopy", "ground_after", "flight"}
RecordedAts == {NoTime, 1}

InitResolve ==
    /\ SegIdle
    /\ PipeIdle
    /\ RestIdle
    /\ \E n \in 0..MaxFiles :
       \E rec \in [1..n -> RecordedAts],
          uuid \in [1..n -> {None} \cup Workloads],
          dom \in [1..n -> ResolveDominants] :
          rs_files = List([i \in 1..n |-> VideoFile(i, rec[i], i, uuid[i], dom[i])])
    /\ rs_result = NoResult
    /\ rs_pc = "call"

\* resolution = self.jump_resolver.resolve_jumps(files)
CallResolveJumps ==
    /\ rs_pc = "call"
    /\ rs_result' = ResolveJumps(rs_files)
    /\ rs_pc' = "returned"
    /\ UNCHANGED rs_files
    /\ UNCHANGED segVars
    /\ UNCHANGED <<pipeVars, restVars>>

NextResolve == CallResolveJumps

SpecResolve == InitResolve /\ [][NextResolve]_vars

DistinctIdentifiers ==
    {rs_files[i].detected_workload_uuid : i \in DOMAIN rs_files} \ {None, ""}

\* C1: the verdict is decided by (Q, J) alone, by the rows of the decision
\* table in their order; the result reports J and the Q distinct identifiers.
ResolutionTable ==
    rs_pc = "returned" =>
       LET Q == Cardinality(DistinctIdentifiers)
           J == CountFreefallSegments(rs_files)
           verdict == <<rs_result.status, rs_result.resolution_type>>
       IN /\ rs_result.freefall_count = J
          /\ rs_result.detected_qr_uuids = DistinctIdentifiers
          /\ IF Q = 1 /\ J = 1
             THEN /\ verdict = <<"resolved", "auto_single">>
                  /\ Len(rs_result.mappings) = 1
                  /\ {rs_result.mappings[1].workload_uuid} = DistinctIdentifiers
                  /\ rs_result.mappings[1].files =
                        [i \in 1..Len(rs_files) |-> rs_files[i].id]
             ELSE IF Q = J /\ Q > 1
             THEN verdict = <<"resolved", "auto_multi">>
             ELSE IF Q = 0 /\ J = 1
             THEN /\ verdict = <<"needs_manual", "missing_qr">>
                  /\ rs_result.mappings = <<>>
             ELSE /\ verdict = <<"needs_manual", "ambiguous">>
                  /\ rs_result.mappings = <<>>
                  /\ rs_result.message.numbers = <<Q, J>>

\* The pair (2, 1) has been decided: two identifiers, one freefall run, the
\* verdict ambiguous with both numbers in the message.
ResolutionTableWitness ==
    /\ rs_pc = "returned"
    /\ Cardinality(DistinctIdentifiers) = 2
    /\ CountFreefallSegments(rs_files) = 1
    /\ rs_result.resolution_type = "ambiguous"
    /\ rs_result.message.numbers = <<2, 1>>

\* C2: an auto_multi result has one mapping per distinct identifier and its
\* mappings partition the input files.
AutoMultiPartition ==
    (rs_pc = "returned" /\ rs_result.resolution_type = "auto_multi") =>
       LET maps == rs_result.mappings
       IN /\ Len(maps) = Cardinality(DistinctIdentifiers)
          /\ \A u \in DistinctIdentifiers :
                Cardinality({m \in DOMAIN maps : maps[m].workload_uuid = u}) = 1
          /\ \A i \in DOMAIN rs_files :
                Cardinality({<<m, k>> \in (DOMAIN maps) \X (1..Len(rs_files)) :
                                /\ k <= Len(maps[m].files)
                                /\ maps[m].files[k] = rs_files[i].id}) = 1

\* ---------------------------------------------------------------------------
\* VideoAnalyzer.analyze_folder
\* ---------------------------------------------------------------------------
MaxVideos == 3      \* most video files lying in the import folder
MaxRuns == 1        \* calls of analyze_folder explored
workers == 2        \* self.workers, the width of the pool

\* Path(folder_path).name
FolderUuid == "folder"

\* The steps of analyze_single_file that are let raise.
Steps == {"qr", "classify", "segments", "persist"}

\* str(e) of the exception a step raises
ExceptionText(step) ==
    CASE step = "qr"       -> "marker detection failed"
      [] step = "classify" -> "classification failed"
      [] step = "segments" -> "segment detection failed"
      [] step = "persist"  -> "commit failed"

\* The categories the classifier gives the frames of one file.
WorkerCategories == {"freefall", "canopy", "in_plane"}

\* What classify_video_adaptive returns for a file all of one category.
Profile(cat) == List([i \in 1..4 |-> FrameClassification(i - 1, cat, ConfHigh)])

\* qr_result['frame_timestamp'] of a marker found in the first frame
MarkerTimestamp == 0

NewBatch(total) ==
    [status |-> "analyzing", total_files |-> total, analyzed_files |-> 0,
     detected_qr_count |-> 0, detected_freefall_count |-> 0,
     resolution_type |-> None, error_message |-> NoMessage,
     resolved_folder_name |-> None]

NewRecord(id, file) ==
    [id |-> id, file |-> file, import_folder_uuid |-> FolderUuid,
     current_folder_uuid |-> FolderUuid, filepath |-> <<FolderUuid, file>>,
     status |-> "pending", error_message |-> None,
     detected_workload_uuid |-> None, dominant_classification |-> "unknown",
     recorded_at |-> NoTime, created_at |-> id]

NewResult == [success |-> FALSE, error |-> None]

\* What progress_callback is called with: the event type and its data.
Event(type, data) == [type |-> type, data |-> data]

\* The data of batch_completed (and of the router's analysis_completed).
BatchData(b) ==
    [status |-> b.status, resolution_type |-> b.resolution_type,
     total |-> b.total_files, success |-> b.analyzed_files,
     errors |-> b.total_files - b.analyzed_files,
     detected_qr_count |-> b.detected_qr_count,
     detected_freefall_count |-> b.detected_freefall_count]

\* _get_video_files: the video files of the folder, sorted by name.
RECURSIVE VideoFilesFrom(_, _)
VideoFilesFrom(loc, f) ==
    IF f > Len(loc) THEN <<>>
    ELSE (IF loc[f] = FolderUuid THEN <<f>> ELSE <<>>) \o VideoFilesFrom(loc, f + 1)

GetVideoFiles(loc) == VideoFilesFrom(loc, 1)

\* _init_batch
InitBatch(existing, total) ==
    IF existing # NoBatch
    THEN [existing EXCEPT !.status = "analyzing", !.analyzed_files = 0,
                          !.error_message = NoMessage]
    ELSE NewBatch(total)

Init ==
    /\ SegIdle
    /\ RsIdle
    /\ RestIdle
    /\ pc = "idle"
    /\ runs_left = MaxRuns
    /\ source_dir_exists \in BOOLEAN
    /\ \E n \in 0..MaxVideos :
          /\ source_dir_exists \/ n = 0
          /\ location = [f \in 1..n |-> FolderUuid]
    /\ batch = NoBatch
    /\ records = <<>>
    /\ task = <<>>
    /\ results = <<>>
    /\ collected = {}
    /\ success_count = 0
    /\ resolution = NoResult
    /\ exec = NoExec
    /\ events = <<>>

\* analyze_folder up to the analysis_started event
AnalyzeFolder ==
    /\ pc \in {"idle", "closed"}
    /\ runs_left > 0
    /\ runs_left' = runs_left - 1
    /\ task' = <<>>
    /\ results' = <<>>
    /\ collected' = {}
    /\ success_count' = 0
    /\ resolution' = NoResult
    /\ exec' = NoExec
    /\ IF ~source_dir_exists
       THEN /\ pc' = "raised"
            /\ UNCHANGED <<batch, events>>
       ELSE /\ batch' = InitBatch(batch, Len(GetVideoFiles(location)))
            /\ events' = Append(events,
                   Event("analysis_started", [total_files |-> batch'.total_files]))
            /\ pc' = "enumerate"
    /\ UNCHANGED <<source_dir_exists, location, records>>
    /\ UNCHANGED <<segVars, rsVars, restVars>>

\* analyze_folder without the empty-folder exit: _create_file_records and the
\* pool run on the empty list.
CreateFileRecordsNoExit ==
    /\ pc = "enumerate"
    /\ LET video_files == GetVideoFiles(location)
           first == Len(records)
           ids == (first + 1)..(first + Len(video_files))
       IN /\ records' = records \o
                List([i \in 1..Len(video_files) |->
                         NewRecord(first + i, video_files[i])])
          /\ task' = [r \in ids |-> "listed"]
          /\ results' = [r \in ids |-> NewResult]
          /\ pc' = "dispatch"
          /\ UNCHANGED batch
    /\ UNCHANGED <<runs_left, source_dir_exists, location, collected,
                   success_count, resolution, exec, events>>
    /\ UNCHANGED <<segVars, rsVars, restVars>>

\* _get_video_files, the empty-folder exit, _create_file_records
CreateFileRecords ==
    /\ pc = "enumerate"
    /\ LET video_files == GetVideoFiles(location)
           first == Len(records)
           ids == (first + 1)..(first + Len(video_files))
       IN IF video_files = <<>>
          THEN /\ batch' = [batch EXCEPT
                              !.status = "error",
                              !.error_message =
                                  Message("No video files found in folder", <<>>)]
               /\ pc' = "returned"
               /\ UNCHANGED <<records, task, results>>
          ELSE /\ records' = records \o
                     List([i \in 1..Len(video_files) |->
                              NewRecord(first + i, video_files[i])])
               /\ task' = [r \in ids |-> "listed"]
               /\ results' = [r \in ids |-> NewResult]
               /\ pc' = "dispatch"
               /\ UNCHANGED batch
    /\ UNCHANGED <<runs_left, source_dir_exists, location, collected,
                   success_count, resolution, exec, events>>
    /\ UNCHANGED <<segVars, rsVars, restVars>>

\* _analyze_files_parallel: the model is loaded, every file is submitted
Dispatch ==
    /\ pc = "dispatch"
    /\ task' = [r \in DOMAIN task |-> "queued"]
    /\ pc' = "collect"
    /\ UNCHANGED <<runs_left, source_dir_exists, location, batch, records,
                   results, collected, success_count, resolution, exec, events>>
    /\ UNCHANGED <<segVars, rsVars, restVars>>

\* A pool that starts a thread for every queued task, whatever max_workers is
WorkerStartUnbounded(r) ==
    /\ pc = "collect"
    /\ task[r] = "queued"
    /\ \A q \in DOMAIN task : task[q] = "queued" => r <= q
    /\ task' = [task EXCEPT ![r] = "running"]
    /\ records' = [records EXCEPT ![r].status = "analyzing"]
    /\ UNCHANGED <<pc, runs_left, source_dir_exists, location, batch, results,
                   collected, success_count, resolution, exec, events>>
    /\ UNCHANGED <<segVars, rsVars, restVars>>

\* A pool thread takes the oldest queued task; analyze_single_file marks the
\* record analyzing and commits.
WorkerStart(r) ==
    /\ pc = "collect"
    /\ task[r] = "queued"
    /\ \A q \in DOMAIN task : task[q] = "queued" => r <= q
    /\ Cardinality({q \in DOMAIN task : task[q] = "running"}) < workers
    /\ task' = [task EXCEPT ![r] = "running"]
    /\ records' = [records EXCEPT ![r].status = "analyzing"]
    /\ UNCHANGED <<pc, runs_left, source_dir_exists, location, batch, results,
                   collected, success_count, resolution, exec, events>>
    /\ UNCHANGED <<segVars, rsVars, restVars>>

\* The rest of analyze_single_file: marker detection, classification, segment
\* detection, persisting; the except clause when one of them raises.  The
\* handler works on the session of the failed commit, and what it raises
\* itself is swallowed.
AnalyzeSingleFile(r, may_raise) ==
    /\ task[r] = "running"
    /\ \E marker \in {None} \cup Workloads, cat \in WorkerCategories,
          raised \in {None} \cup may_raise, handler_ok \in BOOLEAN :
          LET found == marker # None /\ raised # "qr"
              qr_end == IF found THEN MarkerTimestamp + 2 ELSE NoTime
              dominant_label ==
                  DetectSegmentsResult(Profile(cat), qr_end,
                                       DefaultMinSegmentDuration)[2]
              pending == [records[r] EXCEPT
                  !.detected_workload_uuid =
                      IF found THEN marker ELSE None,
                  !.dominant_classification =
                      IF raised \in {None, "persist"} THEN dominant_label
                      ELSE records[r].dominant_classification]
          IN /\ handler_ok \/ raised = "persist"
             /\ IF raised = None
                THEN /\ records' = [records EXCEPT
                                       ![r] = [pending EXCEPT !.status = "analyzed"]]
                     /\ results' = [results EXCEPT ![r].success = TRUE]
                ELSE /\ records' =
                          IF handler_ok
                          THEN [records EXCEPT
                                  ![r] = [pending EXCEPT
                                             !.status = "error",
                                             !.error_message = ExceptionText(raised)]]
                          ELSE records
                     /\ results' = [results EXCEPT
                                       ![r].error = ExceptionText(raised)]
    /\ task' = [task EXCEPT ![r] = "done"]
    /\ UNCHANGED <<pc, runs_left, source_dir_exists, location, batch, collected,
                   success_count, resolution, exec, events>>
    /\ UNCHANGED <<segVars, rsVars, restVars>>

\* analyze_single_file with every step let raise
WorkerFinish(r) == AnalyzeSingleFile(r, Steps)

\* One iteration of the as_completed loop
Collect(r) ==
    /\ pc = "collect"
    /\ task[r] = "done"
    /\ r \notin collected
    /\ collected' = collected \cup {r}
    /\ IF results[r].success
       THEN /\ success_count' = success_count + 1
            /\ events' = Append(events,
                   Event("file_analyzed", [batch_id |-> FolderUuid]))
       ELSE UNCHANGED <<success_count, events>>
    /\ UNCHANGED <<pc, runs_left, source_dir_exists, location, batch, records,
                   task, results, resolution, exec>>
    /\ UNCHANGED <<segVars, rsVars, restVars>>

NewExec == [NoExec EXCEPT !.next = 1, !.outcome = "running"]

\* analyze_folder from the end of the pool to the resolver's verdict: the
\* count of analyzed files is committed, the records of the import folder are
\* read back and handed to resolve_jumps.
Resolve ==
    /\ pc = "collect"
    /\ collected = DOMAIN task
    /\ batch' = [batch EXCEPT !.analyzed_files = success_count]
    /\ resolution' = ResolveJumps(records)
    /\ IF resolution'.status = "resolved"
       THEN pc' = "execute" /\ exec' = NewExec
       ELSE pc' = "complete" /\ exec' = exec
    /\ UNCHANGED <<runs_left, source_dir_exists, location, records, task,
                   results, collected, success_count, events>>
    /\ UNCHANGED <<segVars, rsVars, restVars>>

\* The for loop of move_files_to_workload over files[k..upto]; st holds the
\* records, the place of every file and the moves made.
RECURSIVE MoveFiles(_, _, _, _, _)
MoveFiles(files, k, upto, folder_name, st) ==
    IF k > upto THEN st
    ELSE LET rec == st.records[files[k]]
             source_exists == st.location[rec.file] = rec.filepath[1]
         IN IF source_exists
            THEN MoveFiles(files, k + 1, upto, folder_name,
                    [records |-> [st.records EXCEPT
                                     ![files[k]].current_folder_uuid = folder_name,
                                     ![files[k]].filepath = <<folder_name, rec.file>>],
                     location |-> [st.location EXCEPT ![rec.file] = folder_name],
                     moved |-> Append(st.moved, <<rec.file, folder_name>>)])
            ELSE MoveFiles(files, k + 1, upto, folder_name, st)

\* get_folder_name: the workload identifier, no client name being known
GetFolderName(workload_uuid) == workload_uuid

\* The body of execute_resolution's loop for the next mapping:
\* move_files_to_workload, and what the loop does with its result.
ExecuteMapping(failures) ==
    /\ pc = "execute"
    /\ exec.next <= Len(resolution.mappings)
    /\ LET mapping == resolution.mappings[exec.next]
           folder_name == GetFolderName(mapping.workload_uuid)
           start == [records |-> records, location |-> location,
                     moved |-> exec.moved]
           tried == [exec EXCEPT !.attempted = Append(exec.attempted, exec.next)]
       IN \/ \* mkdir or chmod of the target directory raises
             /\ "mkdir" \in failures
             /\ exec' = [tried EXCEPT !.outcome = "raised"]
             /\ pc' = "raised"
             /\ UNCHANGED <<records, location, source_dir_exists, batch,
                            resolution>>
          \/ \* moving the k-th file raises: caught, None is returned
             \E k \in {i \in 1..Len(mapping.files) : "move" \in failures} :
                LET st == MoveFiles(mapping.files, 1, k - 1, folder_name, start)
                    rec == st.records[mapping.files[k]]
                IN /\ st.location[rec.file] = rec.filepath[1]
                   /\ records' = st.records
                   /\ location' = st.location
                   /\ exec' = [tried EXCEPT !.outcome = "failed",
                                            !.moved = st.moved]
                   /\ pc' = "complete"
                   /\ UNCHANGED <<source_dir_exists, batch, resolution>>
          \/ \* every file is moved; the workload update commits the session
             LET st == MoveFiles(mapping.files, 1, Len(mapping.files),
                                 folder_name, start)
                 last == exec.next = Len(resolution.mappings)
             IN /\ records' = st.records
                /\ location' = st.location
                /\ source_dir_exists' =
                      (source_dir_exists
                         /\ \E f \in DOMAIN st.location : st.location[f] = FolderUuid)
                /\ batch' = [batch EXCEPT
                      !.detected_qr_count = Cardinality(resolution.detected_qr_uuids),
                      !.detected_freefall_count = resolution.freefall_count]
                /\ resolution' = [resolution EXCEPT
                      !.mappings[exec.next].folder_name = folder_name]
                /\ exec' = [tried EXCEPT
                      !.next = exec.next + 1,
                      !.moved = st.moved,
                      !.resolved_folder_name =
                          IF exec.resolved_folder_name = None THEN folder_name
                          ELSE exec.resolved_folder_name,
                      !.outcome = IF last THEN "ok" ELSE "running"]
                /\ pc' = IF last THEN "complete" ELSE "execute"
    /\ UNCHANGED <<runs_left, task, results, collected, success_count, events>>
    /\ UNCHANGED <<segVars, rsVars, restVars>>

\* The failures of the file system that are explored.
Failures == {"mkdir", "move"}

\* The loop body with every failure let happen
MoveFilesToWorkload == ExecuteMapping(Failures)

\* analyze_folder from the result of execute_resolution (or the verdict
\* needs_manual) to its return
Complete ==
    /\ pc = "complete"
    /\ LET counted == [batch EXCEPT
              !.detected_qr_count = Cardinality(resolution.detected_qr_uuids),
              !.detected_freefall_count = resolution.freefall_count]
       IN batch' =
            IF resolution.status = "resolved"
            THEN IF exec.outcome = "ok" /\ exec.resolved_folder_name # None
                 THEN [counted EXCEPT
                         !.status = "resolved",
                         !.resolution_type = resolution.resolution_type,
                         !.resolved_folder_name = exec.resolved_folder_name]
                 ELSE [counted EXCEPT
                         !.status = "error",
                         !.error_message =
                             Message("Failed to move files to workload folders", <<>>)]
            ELSE [counted EXCEPT
                    !.status = "needs_manual",
                    !.resolution_type = resolution.resolution_type,
                    !.error_message = resolution.message]
    /\ events' = Append(events, Event("batch_completed", BatchData(batch')))
    /\ pc' = "returned"
    /\ UNCHANGED <<runs_left, source_dir_exists, location, records, task,
                   results, collected, success_count, resolution, exec>>
    /\ UNCHANGED <<segVars, rsVars, restVars>>

\* _run_analysis after analyze_folder: analysis_completed when it returned,
\* the except clause with analysis_error when it raised
RunAnalysisEnd ==
    /\ pc \in {"returned", "raised"}
    /\ events' = Append(events,
          IF pc = "returned"
          THEN Event("analysis_completed", BatchData(batch))
          ELSE Event("analysis_error", [folder_path |-> FolderUuid]))
    /\ pc' = "closed"
    /\ UNCHANGED <<runs_left, source_dir_exists, location, batch, records, task,
                   results, collected, success_count, resolution, exec>>
    /\ UNCHANGED <<segVars, rsVars, restVars>>

Next ==
    \/ AnalyzeFolder
    \/ CreateFileRecords
    \/ Dispatch
    \/ \E r \in DOMAIN task : WorkerStart(r)
    \/ \E r \in DOMAIN task : WorkerFinish(r)
    \/ \E r \in DOMAIN task : Collect(r)
    \/ Resolve
    \/ MoveFilesToWorkload
    \/ Complete
    \/ RunAnalysisEnd

Spec == Init /\ [][Next]_vars

\* ---- the run as a whole -----------------------------------------------------
RunEnded == pc \in {"returned", "raised"}

TerminalStatuses == {"resolved", "needs_manual", "error"}

\* C3: a run over an existing folder with at least one video file ends with
\* the batch in a terminal status: resolved with the resolver's type exactly
\* when the resolver said resolved and the execution succeeded, error when it
\* said resolved and the execution failed, needs_manual with the resolver's
\* type and message exactly when it did not say resolved.
BatchEndsTerminal ==
    (RunEnded /\ DOMAIN task # {}) =>
       /\ batch.status \in TerminalStatuses
       /\ batch.status = "resolved" <=>
             (resolution.status = "resolved" /\ exec.outcome = "ok")
       /\ batch.status = "resolved" =>
             batch.resolution_type = resolution.resolution_type
       /\ (resolution.status = "resolved" /\ exec.outcome # "ok") =>
             batch.status = "error"
       /\ batch.status = "needs_manual" <=> resolution.status = "needs_manual"
       /\ batch.status = "needs_manual" =>
             /\ batch.resolution_type = resolution.resolution_type
             /\ batch.error_message = resolution.message

\* C5: the resolver's verdict (and the execution after it) exists only when
\* every task of the run is done and its record carries its committed final
\* status, analyzed or error.
ResolverAfterEveryTask ==
    (resolution # NoResult \/ pc \in {"execute", "complete"}) =>
       \A r \in DOMAIN task :
          /\ task[r] = "done"
          /\ records[r].status \in {"analyzed", "error"}

\* C6: when a step of a file's worker has raised, that file's record ends
\* with status error and the exception's text, every file of the run ends
\* analyzed or error, and the run goes on to the resolver and ends with the
\* batch in a terminal status.
WorkerFailureContained ==
    (RunEnded /\ \E r \in DOMAIN results : results[r].error # None) =>
       /\ \A r \in DOMAIN results :
             results[r].error # None =>
                /\ records[r].status = "error"
                /\ records[r].error_message = results[r].error
       /\ \A r \in DOMAIN task : records[r].status \in {"analyzed", "error"}
       /\ resolution # NoResult
       /\ batch.status \in TerminalStatuses

\* C7: when the execution of a mapping fails, execute_resolution returns None
\* and does not raise, the failed mapping is the last one attempted, the
\* files moved before stay where they were moved to, and the batch ends with
\* status error.
ExecutionFailureReported ==
    (RunEnded /\ exec.outcome \in {"failed", "raised"}) =>
       /\ exec.outcome = "failed"
       /\ pc = "returned"
       /\ exec.attempted = [i \in 1..exec.next |-> i]
       /\ \A i \in DOMAIN exec.moved :
             location[exec.moved[i][1]] = exec.moved[i][2]
       /\ batch.status = "error"

\* ---- Scenario B -------------------------------------------------------------
\* Two files in capture order, the first with marker W1, the second with
\* marker W2, both with dominant classification freefall.
IsScenarioB ==
    /\ Len(rs_files) = 2
    /\ rs_files[1].detected_workload_uuid = "W1"
    /\ rs_files[2].detected_workload_uuid = "W2"
    /\ rs_files[1].dominant_classification = "freefall"
    /\ rs_files[2].dominant_classification = "freefall"
    /\ SortedFiles(rs_files) = rs_files

\* C11: for Scenario B resolve_jumps returns resolved / auto_multi with two
\* mappings of one file each, file 1 under W1 and file 2 under W2.
ScenarioBResult ==
    (rs_pc = "returned" /\ IsScenarioB) =>
       /\ rs_result.status = "resolved"
       /\ rs_result.resolution_type = "auto_multi"
       /\ Len(rs_result.mappings) = 2
       /\ rs_result.mappings[1] = JumpMapping("W1", <<rs_files[1].id>>)
       /\ rs_result.mappings[2] = JumpMapping("W2", <<rs_files[2].id>>)


\* ---- re-entry: analyze_folder again on the same folder ------------------------

MaxRerunVideos == 2
MaxReruns == 2

\* Two commands for the same folder, the second after the first has ended.
\* The steps of the per-file analysis and the file system do not fail here.
InitRerun ==
    /\ SegIdle
    /\ RsIdle
    /\ RestIdle
    /\ pc = "idle"
    /\ runs_left = MaxReruns
    /\ source_dir_exists \in BOOLEAN
    /\ \E n \in 0..MaxRerunVideos :
          /\ source_dir_exists \/ n = 0
          /\ location = [f \in 1..n |-> FolderUuid]
    /\ batch = NoBatch
    /\ records = <<>>
    /\ task = <<>>
    /\ results = <<>>
    /\ collected = {}
    /\ success_count = 0
    /\ resolution = NoResult
    /\ exec = NoExec
    /\ events = <<>>

NextRerun ==
    \/ AnalyzeFolder
    \/ CreateFileRecords
    \/ Dispatch
    \/ \E r \in DOMAIN task : WorkerStart(r)
    \/ \E r \in DOMAIN task : AnalyzeSingleFile(r, {})
    \/ \E r \in DOMAIN task : Collect(r)
    \/ Resolve
    \/ ExecuteMapping({})
    \/ Complete
    \/ RunAnalysisEnd

SpecRerun == InitRerun /\ [][NextRerun]_vars

\* The records of the import folder that stand for the physical file f
RecordsOfFile(f) == {r \in DOMAIN records : records[r].file = f}

\* The number of analyze_folder runs that got as far as analysis_started
StartedRuns ==
    Cardinality({i \in DOMAIN events : events[i].type = "analysis_started"})

\* C12: whenever the resolver has been handed the records of the import
\* folder, they hold exactly one record for every discovered video file, after
\* any number of runs.
OneRecordPerFile ==
    resolution # NoResult =>
        \A f \in DOMAIN location : Cardinality(RecordsOfFile(f)) = 1


\* C13: when analyze_folder is entered for a folder whose batch exists, then
\* before any per-file work of the new run the batch has status analyzing, its
\* analyzed-file, distinct-marker and detected-jump counts are zero and its
\* error message is cleared.
BatchResetOnReentry ==
    (StartedRuns >= 2 /\ pc \in {"enumerate", "dispatch"}) =>
        /\ batch.status = "analyzing"
        /\ batch.analyzed_files = 0
        /\ batch.detected_qr_count = 0
        /\ batch.detected_freefall_count = 0
        /\ batch.error_message = NoMessage


\* The batch_completed events so far, oldest first
IsBatchCompleted(e) == e.type = "batch_completed"

CompletedRuns == SelectSeq(events, IsBatchCompleted)

\* Every analysis of a file gave what the other analyses of that file gave.
SameAnalysisResults ==
    \A r1, r2 \in DOMAIN records :
        records[r1].file = records[r2].file =>
            /\ records[r1].status = records[r2].status
            /\ records[r1].detected_workload_uuid = records[r2].detected_workload_uuid
            /\ records[r1].dominant_classification =
                  records[r2].dominant_classification

\* C14: a second analyze_folder on a folder whose first run ended needs_manual,
\* with the same files and the same per-file analysis results, ends with the
\* batch status, resolution type, distinct-marker count and jump count of the
\* first run.
ReentryIdempotent ==
    (/\ Len(CompletedRuns) = 2
     /\ CompletedRuns[1].data.status = "needs_manual"
     /\ SameAnalysisResults) =>
        LET first == CompletedRuns[1].data
            second == CompletedRuns[2].data
        IN /\ second.status = first.status
           /\ second.resolution_type = first.resolution_type
           /\ second.detected_qr_count = first.detected_qr_count
           /\ second.detected_freefall_count = first.detected_freefall_count


\* The import folder exists and holds no video file.
EmptyFolder == source_dir_exists /\ location = <<>>

\* C15: for an import folder that exists and holds no video file, no file
\* record is created, no per-file worker is dispatched, the resolver and the
\* moves are never reached, and analyze_folder ends with batch status error
\* and the no-video-files message.
NoVideoFilesOutcome ==
    EmptyFolder =>
        /\ records = <<>>
        /\ DOMAIN task = {}
        /\ resolution = NoResult
        /\ exec = NoExec
        /\ pc \in {"idle", "enumerate", "returned", "closed"}
        /\ pc \in {"returned", "closed"} =>
              /\ batch.status = "error"
              /\ batch.error_message =
                    Message("No video files found in folder", <<>>)

NoVideoFilesWitness ==
    /\ EmptyFolder
    /\ pc = "returned"
    /\ batch.status = "error"


\* C16: when the import folder does not exist, the run ends with the batch of
\* the folder in status error with a message, and no per-file work was
\* attempted.
MissingFolderReported ==
    (~source_dir_exists /\ pc = "closed") =>
        /\ records = <<>>
        /\ DOMAIN task = {}
        /\ batch.status = "error"
        /\ batch.error_message # NoMessage


\* ---- MLClassifier.classify_video_adaptive -------------------------------------
\* Times are counted in tenths of a second.

TenthSecond == 1
OneSecond == 10

MaxDuration == 22          \* longest video drawn, in tenths of a second
MaxCoarseInterval == 11    \* largest coarse_interval drawn
MaxFineInterval == 3       \* largest fine_interval drawn

\* What the capture delivers: whether it opens, the duration (frame count over
\* fps), the content as scenes that change at the times in cuts, and the time
\* from which on cap.read() fails.
Video(opened, duration, scenes, cuts, readable_until) ==
    [opened |-> opened, duration |-> duration, scenes |-> scenes,
     cuts |-> cuts, readable_until |-> readable_until]

SceneLists == {<<"in_plane", "freefall", "canopy">>,
               <<"freefall", "canopy", "freefall">>}

\* The category the model predicts for the frame at ts
CategoryAt(v, ts) ==
    v.scenes[1 + Cardinality({i \in DOMAIN v.cuts : v.cuts[i] <= ts})]

\* _extract_frame_at_timestamp: FrameData or None
ExtractFrameAtTimestamp(v, ts) == IF ts < v.readable_until THEN <<ts>> ELSE <<>>

\* As CoarseFrom, with the sample at the duration itself taken as well
RECURSIVE CoarseFromInclusive(_, _, _)
CoarseFromInclusive(t, duration, interval) ==
    IF t <= duration
    THEN <<t>> \o CoarseFromInclusive(t + interval, duration, interval)
    ELSE <<>>

\* the while loop of the coarse pass
RECURSIVE CoarseFrom(_, _, _)
CoarseFrom(t, duration, interval) ==
    IF t < duration
    THEN <<t>> \o CoarseFrom(t + interval, duration, interval)
    ELSE <<>>

\* Phase 1: the coarse timestamps, the last frame included
CoarseTimestamps(duration, interval) ==
    LET coarse_timestamps == CoarseFrom(0, duration, interval)
        last == coarse_timestamps[Len(coarse_timestamps)]
    IN IF last < duration - OneSecond
       THEN Append(coarse_timestamps,
                   Min(duration - TenthSecond, last + interval))
       ELSE coarse_timestamps

\* The frames of a list of timestamps that could be read, classified
RECURSIVE ClassifyFrames(_, _, _)
ClassifyFrames(v, timestamps, i) ==
    IF i > Len(timestamps) THEN <<>>
    ELSE LET frame_data == ExtractFrameAtTimestamp(v, timestamps[i])
         IN (IF frame_data # <<>>
             THEN <<FrameClassification(frame_data[1],
                                        CategoryAt(v, frame_data[1]), ConfHigh)>>
             ELSE <<>>)
            \o ClassifyFrames(v, timestamps, i + 1)

\* Every pair of neighbouring coarse results taken as a transition
TransitionsEveryPair(coarse_results) ==
    {<<coarse_results[i - 1].timestamp, coarse_results[i].timestamp>> :
        i \in 2..Len(coarse_results)}

\* Phase 2: the pairs of neighbouring coarse results whose categories differ
Transitions(coarse_results) ==
    {<<coarse_results[i - 1].timestamp, coarse_results[i].timestamp>> :
        i \in {j \in 2..Len(coarse_results) :
                 coarse_results[j].category # coarse_results[j - 1].category}}

\* Variant: the fine pass steps by twice the fine interval
RECURSIVE FineFromEveryOther(_, _, _)
FineFromEveryOther(t, end_ts, interval) ==
    IF t < end_ts
    THEN {t} \cup FineFromEveryOther(t + 2 * interval, end_ts, interval)
    ELSE {}

\* the while loop of the fine pass between two coarse points
RECURSIVE FineFrom(_, _, _)
FineFrom(t, end_ts, interval) ==
    IF t < end_ts THEN {t} \cup FineFrom(t + interval, end_ts, interval) ELSE {}

FineTimestamps(transitions, interval) ==
    UNION {FineFrom(tr[1] + interval, tr[2], interval) : tr \in transitions}

\* sorted(fine_timestamps)
RECURSIVE Sorted(_)
Sorted(S) ==
    IF S = {} THEN <<>>
    ELSE LET least == CHOOSE x \in S : \A y \in S : x <= y
         IN <<least>> \o Sorted(S \ {least})

\* all_results.sort(key=timestamp): stable
RECURSIVE InsertByTimestamp(_, _)
InsertByTimestamp(sorted, r) ==
    IF sorted = <<>> THEN <<r>>
    ELSE IF r.timestamp < sorted[Len(sorted)].timestamp
         THEN Append(InsertByTimestamp(SubSeq(sorted, 1, Len(sorted) - 1), r),
                     sorted[Len(sorted)])
         ELSE Append(sorted, r)

RECURSIVE SortByTimestamp(_, _)
SortByTimestamp(rs, i) ==
    IF i = 0 THEN <<>>
    ELSE InsertByTimestamp(SortByTimestamp(rs, i - 1), rs[i])

\* classify_video_adaptive
ClassifyVideoAdaptiveResult(v, coarse, fine) ==
    IF ~v.opened THEN <<>>
    ELSE IF v.duration <= 0 THEN <<>>
    ELSE LET coarse_results == ClassifyFrames(v, CoarseTimestamps(v.duration, coarse), 1)
         IN IF coarse_results = <<>> THEN <<>>
            ELSE LET existing_timestamps ==
                         {coarse_results[i].timestamp : i \in DOMAIN coarse_results}
                     fine_timestamps ==
                         FineTimestamps(Transitions(coarse_results), fine)
                            \ existing_timestamps
                     fine_results ==
                         ClassifyFrames(v, Sorted(fine_timestamps), 1)
                     combined == coarse_results \o fine_results
                 IN SortByTimestamp(combined, Len(combined))

Durations == (0 - 1)..MaxDuration

InitAdaptive ==
    /\ SegIdle
    /\ RsIdle
    /\ PipeIdle
    /\ CoIdle
    /\ LdIdle
    /\ ExIdle
    /\ \E c \in 1..MaxCoarseInterval, f \in 1..MaxFineInterval :
          /\ coarse_interval = c
          /\ fine_interval = f
    /\ \E opened \in BOOLEAN, d \in Durations, scenes \in SceneLists,
          c1 \in 0..MaxDuration, c2 \in 0..MaxDuration, cut \in 0..2 :
          /\ c1 <= c2
          /\ c2 <= Max(d, 0)
          /\ opened \/ (d = 0 /\ scenes = <<"in_plane", "freefall", "canopy">>
                        /\ cut = 0)
          /\ d <= 0 => cut = 0
          /\ video = Video(opened, d, scenes, <<c1, c2>>,
                           CASE cut = 0 -> d
                             [] cut = 1 -> d - TenthSecond
                             [] cut = 2 -> 0)
    /\ all_results = <<>>
    /\ ac_pc = "called"

ClassifyVideoAdaptive ==
    /\ ac_pc = "called"
    /\ all_results' = ClassifyVideoAdaptiveResult(video, coarse_interval, fine_interval)
    /\ ac_pc' = "returned"
    /\ UNCHANGED <<video, coarse_interval, fine_interval>>
    /\ UNCHANGED <<segVars, rsVars, pipeVars, coVars, ldVars, exVars>>

NextAdaptive == ClassifyVideoAdaptive

SpecAdaptive == InitAdaptive /\ [][NextAdaptive]_vars


\* The timestamps of the list returned
ResultTimestamps == {all_results[i].timestamp : i \in DOMAIN all_results}

\* Every frame of the video can be read.
AllReadable == video.opened /\ video.readable_until = video.duration

\* The multiples of the coarse interval below the duration
CoarseGrid ==
    {t \in 0..(video.duration - 1) : t % coarse_interval = 0}

\* Every coarse sample was read and they were all given one category.
CoarseSamplesAgree ==
    /\ AllReadable
    /\ video.duration > 0
    /\ LET cts == CoarseTimestamps(video.duration, coarse_interval)
       IN \A i, j \in DOMAIN cts :
             CategoryAt(video, cts[i]) = CategoryAt(video, cts[j])

\* ceil(D / C)
CeilDiv(d, c) == (d + c - 1) \div c

\* C19: when all coarse samples of a video of positive duration get the same
\* category, the timestamps classified are the multiples of C below D and at
\* most one more in the last second; their number is ceil(D/C) or ceil(D/C)+1
\* and is what every other fine interval below C gives.
CoarseOnlyWithoutTransition ==
    (ac_pc = "returned" /\ CoarseSamplesAgree) =>
        LET n == Len(all_results)
            extra == ResultTimestamps \ CoarseGrid
        IN /\ CoarseGrid \subseteq ResultTimestamps
           /\ Cardinality(extra) <= 1
           /\ \A t \in extra : t >= video.duration - OneSecond /\ t < video.duration
           /\ n = Cardinality(ResultTimestamps)
           /\ n \in {CeilDiv(video.duration, coarse_interval),
                     CeilDiv(video.duration, coarse_interval) + 1}
           /\ \A f \in 1..(coarse_interval - 1) :
                 Len(ClassifyVideoAdaptiveResult(video, coarse_interval, f)) = n

\* Two coarse samples and the sample near the end, all of one category, in a
\* video whose content changes between samples.
CoarseOnlyWitness ==
    /\ ac_pc = "returned"
    /\ CoarseSamplesAgree
    /\ Len(all_results) = 3
    /\ Len(all_results) = CeilDiv(video.duration, coarse_interval) + 1
    /\ \E t \in 0..(video.duration - 1) :
          CategoryAt(video, t) # all_results[1].category

Progress(state) ==
    CASE state = "listed" -> 0
      [] state = "queued" -> 1
      [] state = "running" -> 2
      [] state = "done" -> 3

\* The per-file analyses executing
Executing == {r \in DOMAIN task : task[r] = "running"}

\* Once the pool is filled, the futures stand one to one for the video files
\* found in the folder.
DispatchedOncePerFile ==
    pc = "collect" =>
        LET video_files == GetVideoFiles(location)
        IN /\ \A i \in DOMAIN video_files :
                 Cardinality({r \in DOMAIN task :
                                 records[r].file = video_files[i]}) = 1
           /\ Cardinality(DOMAIN task) = Len(video_files)
           /\ \A r \in DOMAIN task : Progress(task[r]) >= 1

\* A future never runs a second time.
NeverRedispatched ==
    \A r \in DOMAIN task \cap DOMAIN task' :
        Progress(task[r]) <= Progress(task'[r])

\* C18: within one run every video file found is submitted to the pool as
\* exactly one future, which runs once, and never more than `workers` per-file
\* analyses execute at a time.
PoolDispatch ==
    /\ [](DispatchedOncePerFile /\ Cardinality(Executing) <= workers)
    /\ [][NeverRedispatched]_vars

\* More files than workers: the pool is full and a file waits.
PoolDispatchWitness ==
    /\ pc = "collect"
    /\ Cardinality(DOMAIN task) > workers
    /\ Cardinality(Executing) = workers
    /\ \E r \in DOMAIN task : task[r] = "queued"


\* ---- two _run_analysis tasks for one folder -----------------------------------
\* Each gopro:copy_completed command creates a task; the tasks share the event
\* loop, the file system and the data store.  A coroutine runs until it awaits
\* its progress callback; the pool threads run beside the event loop.  The
\* steps of the analysis and the file system do not fail here.

MaxTasks == 2
MaxTaskVideos == 2

Tasks == 1..MaxTasks

NewRun == [pc |-> "created", task |-> <<>>, results |-> <<>>, collected |-> {},
           success_count |-> 0, resolution |-> NoResult, exec |-> NoExec]

soloVars == <<pc, runs_left, task, results, collected, success_count,
              resolution, exec>>

InitTasks ==
    /\ SegIdle
    /\ RsIdle
    /\ AcIdle
    /\ LdIdle
    /\ ExIdle
    /\ pc = "idle"
    /\ runs_left = 0
    /\ task = <<>>
    /\ results = <<>>
    /\ collected = {}
    /\ success_count = 0
    /\ resolution = NoResult
    /\ exec = NoExec
    /\ source_dir_exists \in BOOLEAN
    /\ \E n \in 0..MaxTaskVideos :
          /\ source_dir_exists \/ n = 0
          /\ location = [f \in 1..n |-> FolderUuid]
    /\ batch = NoBatch
    /\ records = <<>>
    /\ events = <<>>
    /\ run = [t \in Tasks |-> NewRun]
    /\ loop = NoTask

\* The event loop is free to run the coroutine of t, or is running it.
Holds(t) == loop \in {NoTask, t}

\* analyze_folder up to the await of analysis_started
TaskAnalyzeFolder(t) ==
    /\ run[t].pc = "created"
    /\ Holds(t)
    /\ IF ~source_dir_exists
       THEN /\ run' = [run EXCEPT ![t].pc = "raised"]
            /\ loop' = t
            /\ UNCHANGED <<batch, events>>
       ELSE /\ batch' = InitBatch(batch, Len(GetVideoFiles(location)))
            /\ events' = Append(events,
                   Event("analysis_started", [total_files |-> batch'.total_files]))
            /\ run' = [run EXCEPT ![t].pc = "enumerate"]
            /\ loop' = NoTask
    /\ UNCHANGED <<source_dir_exists, location, records>>
    /\ UNCHANGED <<segVars, rsVars, acVars, ldVars, exVars, soloVars>>

\* _get_video_files, the empty-folder exit, _create_file_records and the
\* submits of _analyze_files_parallel
TaskEnumerate(t) ==
    /\ run[t].pc = "enumerate"
    /\ Holds(t)
    /\ LET video_files == GetVideoFiles(location)
           first == Len(records)
           ids == (first + 1)..(first + Len(video_files))
       IN IF video_files = <<>>
          THEN /\ batch' = [batch EXCEPT
                              !.status = "error",
                              !.error_message =
                                  Message("No video files found in folder", <<>>)]
               /\ run' = [run EXCEPT ![t].pc = "returned"]
               /\ UNCHANGED records
          ELSE /\ records' = records \o
                     List([i \in 1..Len(video_files) |->
                              NewRecord(first + i, video_files[i])])
               /\ run' = [run EXCEPT ![t].pc = "collect",
                                     ![t].task = [r \in ids |-> "queued"],
                                     ![t].results = [r \in ids |-> NewResult]]
               /\ UNCHANGED batch
    /\ loop' = t
    /\ UNCHANGED <<source_dir_exists, location, events>>
    /\ UNCHANGED <<segVars, rsVars, acVars, ldVars, exVars, soloVars>>

\* The per-file analyses of task t that a pool thread is executing
InFlight(t) == {r \in DOMAIN run[t].task : run[t].task[r] = "running"}

\* A thread of the pool of t takes the oldest queued future.
TaskWorkerStart(t, r) ==
    /\ run[t].pc = "collect"
    /\ r \in DOMAIN run[t].task
    /\ run[t].task[r] = "queued"
    /\ \A q \in DOMAIN run[t].task : run[t].task[q] = "queued" => r <= q
    /\ Cardinality(InFlight(t)) < workers
    /\ run' = [run EXCEPT ![t].task[r] = "running"]
    /\ records' = [records EXCEPT ![r].status = "analyzing"]
    /\ UNCHANGED <<loop, source_dir_exists, location, batch, events>>
    /\ UNCHANGED <<segVars, rsVars, acVars, ldVars, exVars, soloVars>>

\* The rest of analyze_single_file.  A file that is no longer in the import
\* folder gives no marker and no classification.
TaskWorkerFinish(t, r) ==
    /\ r \in InFlight(t)
    /\ \E marker \in {None, "W1"}, cat \in {"freefall", "canopy"} :
          LET present == location[records[r].file] = records[r].filepath[1]
              found == present /\ marker # None
              qr_end == IF found THEN MarkerTimestamp + 2 ELSE NoTime
              dominant_label ==
                  DetectSegmentsResult(IF present THEN Profile(cat) ELSE <<>>,
                                       qr_end, DefaultMinSegmentDuration)[2]
          IN records' = [records EXCEPT
                 ![r].detected_workload_uuid = IF found THEN marker ELSE None,
                 ![r].dominant_classification = dominant_label,
                 ![r].status = "analyzed"]
    /\ run' = [run EXCEPT ![t].task[r] = "done", ![t].results[r].success = TRUE]
    /\ UNCHANGED <<loop, source_dir_exists, location, batch, events>>
    /\ UNCHANGED <<segVars, rsVars, acVars, ldVars, exVars, soloVars>>

\* One iteration of the as_completed loop, up to the await of file_analyzed
TaskCollect(t, r) ==
    /\ run[t].pc = "collect"
    /\ Holds(t)
    /\ r \in DOMAIN run[t].task
    /\ run[t].task[r] = "done"
    /\ r \notin run[t].collected
    /\ run' = [run EXCEPT ![t].collected = @ \cup {r},
                          ![t].success_count = @ + 1]
    /\ events' = Append(events, Event("file_analyzed", [batch_id |-> FolderUuid]))
    /\ loop' = NoTask
    /\ UNCHANGED <<source_dir_exists, location, batch, records>>
    /\ UNCHANGED <<segVars, rsVars, acVars, ldVars, exVars, soloVars>>

\* analyze_folder from the end of the pool to the resolver's verdict
TaskResolve(t) ==
    /\ run[t].pc = "collect"
    /\ Holds(t)
    /\ run[t].collected = DOMAIN run[t].task
    /\ batch' = [batch EXCEPT !.analyzed_files = run[t].success_count]
    /\ LET verdict == ResolveJumps(records)
       IN run' = [run EXCEPT
              ![t].resolution = verdict,
              ![t].pc = IF verdict.status = "resolved" THEN "execute"
                        ELSE "complete",
              ![t].exec = IF verdict.status = "resolved" THEN NewExec ELSE @]
    /\ loop' = t
    /\ UNCHANGED <<source_dir_exists, location, records, events>>
    /\ UNCHANGED <<segVars, rsVars, acVars, ldVars, exVars, soloVars>>

\* The body of execute_resolution's loop for the next mapping of task t
TaskMoveFilesToWorkload(t) ==
    /\ run[t].pc = "execute"
    /\ Holds(t)
    /\ LET me == run[t]
           mapping == me.resolution.mappings[me.exec.next]
           folder_name == GetFolderName(mapping.workload_uuid)
           st == MoveFiles(mapping.files, 1, Len(mapping.files), folder_name,
                           [records |-> records, location |-> location,
                            moved |-> me.exec.moved])
           last == me.exec.next = Len(me.resolution.mappings)
       IN /\ records' = st.records
          /\ location' = st.location
          /\ source_dir_exists' =
                (source_dir_exists
                   /\ \E f \in DOMAIN st.location : st.location[f] = FolderUuid)
          /\ batch' = [batch EXCEPT
                !.detected_qr_count = Cardinality(me.resolution.detected_qr_uuids),
                !.detected_freefall_count = me.resolution.freefall_count]
          /\ run' = [run EXCEPT
                ![t].resolution.mappings[me.exec.next].folder_name = folder_name,
                ![t].exec = [@ EXCEPT
                    !.attempted = Append(@, me.exec.next),
                    !.next = @ + 1,
                    !.moved = st.moved,
                    !.resolved_folder_name =
                        IF @ = None THEN folder_name ELSE @,
                    !.outcome = IF last THEN "ok" ELSE "running"],
                ![t].pc = IF last THEN "complete" ELSE "execute"]
    /\ loop' = t
    /\ UNCHANGED events
    /\ UNCHANGED <<segVars, rsVars, acVars, ldVars, exVars, soloVars>>

\* analyze_folder from the result of execute_resolution (or the verdict
\* needs_manual) to the await of batch_completed
TaskComplete(t) ==
    /\ run[t].pc = "complete"
    /\ Holds(t)
    /\ LET me == run[t]
           counted == [batch EXCEPT
              !.detected_qr_count = Cardinality(me.resolution.detected_qr_uuids),
              !.detected_freefall_count = me.resolution.freefall_count]
       IN batch' =
            IF me.resolution.status = "resolved"
            THEN [counted EXCEPT
                    !.status = "resolved",
                    !.resolution_type = me.resolution.resolution_type,
                    !.resolved_folder_name = me.exec.resolved_folder_name]
            ELSE [counted EXCEPT
                    !.status = "needs_manual",
                    !.resolution_type = me.resolution.resolution_type,
                    !.error_message = me.resolution.message]
    /\ events' = Append(events, Event("batch_completed", BatchData(batch')))
    /\ run' = [run EXCEPT ![t].pc = "returned"]
    /\ loop' = NoTask
    /\ UNCHANGED <<source_dir_exists, location, records>>
    /\ UNCHANGED <<segVars, rsVars, acVars, ldVars, exVars, soloVars>>

\* _run_analysis after analyze_folder, to the end of the task
TaskEnd(t) ==
    /\ run[t].pc \in {"returned", "raised"}
    /\ Holds(t)
    /\ events' = Append(events,
          IF run[t].pc = "returned"
          THEN Event("analysis_completed", BatchData(batch))
          ELSE Event("analysis_error", [folder_path |-> FolderUuid]))
    /\ run' = [run EXCEPT ![t].pc = "closed"]
    /\ loop' = NoTask
    /\ UNCHANGED <<source_dir_exists, location, batch, records>>
    /\ UNCHANGED <<segVars, rsVars, acVars, ldVars, exVars, soloVars>>

NextTasks ==
    \E t \in Tasks :
        \/ TaskAnalyzeFolder(t)
        \/ TaskEnumerate(t)
        \/ \E r \in DOMAIN records : TaskWorkerStart(t, r)
        \/ \E r \in DOMAIN records : TaskWorkerFinish(t, r)
        \/ \E r \in DOMAIN records : TaskCollect(t, r)
        \/ TaskResolve(t)
        \/ TaskMoveFilesToWorkload(t)
        \/ TaskComplete(t)
        \/ TaskEnd(t)

SpecTasks == InitTasks /\ [][NextTasks]_vars

\* A step that moves a file
FileMoved == location' # location

\* C17: no file of a folder is moved while a per-file analysis of that folder
\* is executing, be it of the moving run or of another run started for the
\* same folder.
NoMoveDuringAnalysis ==
    [][FileMoved => \A t \in Tasks : InFlight(t) = {}]_vars


\* ---- the progress stream ------------------------------------------------------

\* The events from the latest analysis_started on
CurrentRunEvents ==
    LET starts == {i \in DOMAIN events : events[i].type = "analysis_started"}
    IN IF starts = {} THEN <<>>
       ELSE SubSeq(events, CHOOSE i \in starts : \A j \in starts : j <= i,
                   Len(events))

\* Within a run file_analyzed comes after analysis_started and before
\* batch_completed, batch_completed comes at most once, and it carries the
\* status the batch has when the run has returned.
OrderedStream ==
    /\ \A i \in DOMAIN events :
          events[i].type \in {"file_analyzed", "batch_completed"} =>
              \E j \in 1..(i - 1) : events[j].type = "analysis_started"
    /\ \A i, j \in DOMAIN CurrentRunEvents :
          (CurrentRunEvents[i].type = "batch_completed" /\ i < j) =>
              CurrentRunEvents[j].type \notin {"file_analyzed", "batch_completed"}
    /\ Len(CompletedRuns) <= StartedRuns
    /\ (pc \in {"returned", "closed"} /\ StartedRuns = Len(CompletedRuns)
            /\ CompletedRuns # <<>>) =>
          CompletedRuns[Len(CompletedRuns)].data.status = batch.status

\* C21: the events of a run are ordered (analysis_started, then the
\* file_analyzed events, then batch_completed), and every run that has emitted
\* analysis_started has, when it has ended, emitted its one batch_completed
\* with the final status of the batch.
ProgressStream ==
    /\ OrderedStream
    /\ pc = "closed" => Len(CompletedRuns) = StartedRuns


\* ---- the analyzed-file counter ----

IsFileAnalyzed(e) == e.type = "file_analyzed"

\* C22: while the pool runs, the batch's analyzed_files and the number of
\* file_analyzed notifications of the run both equal the number of per-file
\* tasks that have completed; when the run has ended with batch_completed,
\* analyzed_files is the number of the run's records with status analyzed and
\* is at most total_files.
AnalyzedFilesTracks ==
    /\ pc = "collect" =>
          /\ batch.analyzed_files = Cardinality(collected)
          /\ Len(SelectSeq(CurrentRunEvents, IsFileAnalyzed)) = Cardinality(collected)
    /\ (pc \in {"returned", "closed"} /\ CompletedRuns # <<>>) =>
          /\ batch.analyzed_files =
                Cardinality({r \in DOMAIN records : records[r].status = "analyzed"})
          /\ batch.analyzed_files <= batch.total_files


\* ---------------------------------------------------------------------------
\* The shared classifier: get_classifier, _ensure_loaded and the pool threads
\* of _analyze_files_parallel, for MaxLoadTasks analyses on one event loop
\* ---------------------------------------------------------------------------
MaxLoadTasks == 2       \* analyses started on the event loop
MaxLoadWorkers == 2     \* files, and so pool threads, of each analysis

Loaded == "loaded"

\* <<t, 0>> is the coroutine of analysis t on the event-loop thread,
\* <<t, w>> with w > 0 the pool thread of its w-th file.
Mains == (1..MaxLoadTasks) \X {0}

PoolThreads == (1..MaxLoadTasks) \X (1..MaxLoadWorkers)

Threads == Mains \cup PoolThreads

InitLoad ==
    /\ SegIdle
    /\ RsIdle
    /\ PipeIdle
    /\ CoIdle
    /\ AcIdle
    /\ ExIdle
    /\ classifier_instance = None
    /\ model = None
    /\ load_count = 0
    /\ thread = [th \in Threads |-> IF th \in Mains THEN "init" ELSE "unborn"]

\* A coroutine runs on the event-loop thread from one await to the next: no
\* other coroutine runs while one is inside load_model.
LoopFree(th) ==
    th \in Mains => \A other \in Mains \ {th} : thread[other] # "load"

\* VideoAnalyzer.__init__ calls get_classifier
GetClassifier(th) ==
    /\ th \in Mains
    /\ thread[th] = "init"
    /\ LoopFree(th)
    /\ classifier_instance' =
          IF classifier_instance = None THEN "MLClassifier" ELSE classifier_instance
    /\ thread' = [thread EXCEPT ![th] = "ensure"]
    /\ UNCHANGED <<model, load_count>>
    /\ UNCHANGED <<segVars, rsVars, pipeVars, coVars, acVars, exVars>>

\* _ensure_loaded, the test of self._model
EnsureLoaded(th) ==
    /\ thread[th] = "ensure"
    /\ LoopFree(th)
    /\ thread' = [thread EXCEPT ![th] = IF model = None THEN "load" ELSE "ready"]
    /\ UNCHANGED <<classifier_instance, model, load_count>>
    /\ UNCHANGED <<segVars, rsVars, pipeVars, coVars, acVars, exVars>>

\* _ensure_loaded, load_model and the assignment of its result; load_model
\* may raise, which leaves _model as it was and ends the caller.
LoadModel(th) ==
    /\ thread[th] = "load"
    /\ \E ok \in BOOLEAN :
          IF ok
          THEN /\ model' = Loaded
               /\ load_count' = load_count + 1
               /\ thread' = [thread EXCEPT ![th] = "ready"]
          ELSE /\ thread' = [thread EXCEPT ![th] = "raised"]
               /\ UNCHANGED <<model, load_count>>
    /\ UNCHANGED classifier_instance
    /\ UNCHANGED <<segVars, rsVars, pipeVars, coVars, acVars, exVars>>

\* A pool that is filled without the model having been loaded first
SubmitUnloaded(th) ==
    /\ th \in Mains
    /\ thread[th] \in {"ensure", "ready"}
    /\ LoopFree(th)
    /\ thread' = [x \in Threads |->
                     IF x = th THEN "pool"
                     ELSE IF x[1] = th[1] THEN "submitted" ELSE thread[x]]
    /\ UNCHANGED <<classifier_instance, model, load_count>>
    /\ UNCHANGED <<segVars, rsVars, pipeVars, coVars, acVars, exVars>>

\* _analyze_files_parallel after the pre-load has returned: every file is
\* submitted to the pool.
Submit(th) ==
    /\ th \in Mains
    /\ thread[th] = "ready"
    /\ LoopFree(th)
    /\ thread' = [x \in Threads |->
                     IF x = th THEN "pool"
                     ELSE IF x[1] = th[1] THEN "submitted" ELSE thread[x]]
    /\ UNCHANGED <<classifier_instance, model, load_count>>
    /\ UNCHANGED <<segVars, rsVars, pipeVars, coVars, acVars, exVars>>

\* A pool thread runs analyze_single_file up to the classifier's
\* _ensure_loaded (or fails before it)
ThreadStart(th) ==
    /\ th \in PoolThreads
    /\ thread[th] = "submitted"
    /\ \E reaches \in BOOLEAN :
          thread' = [thread EXCEPT ![th] = IF reaches THEN "ensure" ELSE "failed"]
    /\ UNCHANGED <<classifier_instance, model, load_count>>
    /\ UNCHANGED <<segVars, rsVars, pipeVars, coVars, acVars, exVars>>

\* classify_video_adaptive after _ensure_loaded: the frames are predicted
Classify(th) ==
    /\ th \in PoolThreads
    /\ thread[th] = "ready"
    /\ thread' = [thread EXCEPT ![th] = "classified"]
    /\ UNCHANGED <<classifier_instance, model, load_count>>
    /\ UNCHANGED <<segVars, rsVars, pipeVars, coVars, acVars, exVars>>

\* The pool is left when every thread has finished
PoolExit(th) ==
    /\ th \in Mains
    /\ thread[th] = "pool"
    /\ \A x \in PoolThreads : x[1] = th[1] => thread[x] \in {"classified", "failed"}
    /\ thread' = [thread EXCEPT ![th] = "done"]
    /\ UNCHANGED <<classifier_instance, model, load_count>>
    /\ UNCHANGED <<segVars, rsVars, pipeVars, coVars, acVars, exVars>>

NextLoad ==
    \/ \E th \in Threads : GetClassifier(th)
    \/ \E th \in Threads : EnsureLoaded(th)
    \/ \E th \in Threads : LoadModel(th)
    \/ \E th \in Threads : Submit(th)
    \/ \E th \in Threads : ThreadStart(th)
    \/ \E th \in Threads : Classify(th)
    \/ \E th \in Threads : PoolExit(th)

SpecLoad == InitLoad /\ [][NextLoad]_vars

\* C23: the model is loaded at most once and never by two threads at a time;
\* no pool thread performs a load, and a pool thread that is about to classify
\* finds the model loaded, by the one load there was.
ModelLoadedOnce ==
    /\ load_count <= 1
    /\ Cardinality({th \in Threads : thread[th] = "load"}) <= 1
    /\ \A th \in PoolThreads :
          /\ thread[th] # "load"
          /\ thread[th] = "ready" => model = Loaded /\ load_count = 1

\* Pool threads of two analyses are about to classify at the same time
ModelLoadedOnceWitness ==
    /\ \E a, b \in PoolThreads :
          a[1] # b[1] /\ thread[a] = "ready" /\ thread[b] = "ready"
    /\ load_count = 1


\* ---------------------------------------------------------------------------
\* count_freefall_segments over every dominant classification
\* ---------------------------------------------------------------------------
MaxCountFiles == 3

\* dominant_classification of a record: a label of the segment detector, or
\* None when the file's analysis failed
RecordDominants == Labels \cup {None}

InitCount ==
    /\ SegIdle
    /\ PipeIdle
    /\ RestIdle
    /\ \E n \in 0..MaxCountFiles :
       \E rec \in [1..n -> RecordedAts],
          uuid \in [1..n -> {None, "W1"}],
          dom \in [1..n -> RecordDominants] :
          rs_files = List([i \in 1..n |-> VideoFile(i, rec[i], i, uuid[i], dom[i])])
    /\ rs_result = NoResult
    /\ rs_pc = "call"

SpecCount == InitCount /\ [][NextResolve]_vars

\* The dominant classifications of the files in capture order
CaptureOrder ==
    LET s == SortedFiles(rs_files)
    IN List([i \in 1..Len(s) |-> s[i].dominant_classification])

\* The freefall-dominant files that start a run: the first one, and each one
\* with a canopy or ground_after file between it and every earlier one.
RunStarts ==
    {i \in DOMAIN CaptureOrder :
        /\ CaptureOrder[i] = "freefall"
        /\ \A k \in 1..(i - 1) :
              CaptureOrder[k] = "freefall" =>
                 \E j \in (k + 1)..(i - 1) :
                    CaptureOrder[j] \in {"canopy", "ground_after"}}

\* C24: the freefall count of a resolution is the number of freefall runs in
\* capture order, a run being ended only by a canopy or ground_after file;
\* with one identifier, the sequence freefall, canopy, freefall counts 2 and
\* is ambiguous with the numbers 1 and 2 in its message.
FreefallRuns ==
    rs_pc = "returned" =>
       /\ rs_result.freefall_count = Cardinality(RunStarts)
       /\ CountFreefallSegments(rs_files) = Cardinality(RunStarts)
       /\ (CaptureOrder = <<"freefall", "canopy", "freefall">>
              /\ Cardinality(DistinctIdentifiers) = 1) =>
             /\ rs_result.freefall_count = 2
             /\ rs_result.status = "needs_manual"
             /\ rs_result.resolution_type = "ambiguous"
             /\ rs_result.message.numbers = <<1, 2>>

\* Scenario C has been resolved, from files whose capture order is not the
\* order they were handed over in.
FreefallRunsWitness ==
    /\ rs_pc = "returned"
    /\ CaptureOrder = <<"freefall", "canopy", "freefall">>
    /\ rs_files[3].dominant_classification = "canopy"
    /\ Cardinality(DistinctIdentifiers) = 1
    /\ rs_result.freefall_count = 2
    /\ rs_result.resolution_type = "ambiguous"


\* ---- the marker segment ----

\* C25: with a marker end time E > 0 and a non-empty classification sequence,
\* the first segment returned by detect_segments is the marker segment with
\* the range [0, E), and every other segment starts at or after E.
MarkerSegmentFirst ==
    (sd_pc = "returned" /\ qr_end_time > 0 /\ classifications # <<>>) =>
       /\ segments # <<>>
       /\ segments[1].classification = "qr_code"
       /\ segments[1].start_time = 0
       /\ segments[1].end_time = qr_end_time
       /\ \A i \in 2..Len(segments) : segments[i].start_time >= qr_end_time


\* ---- smoothing ----

\* The categories of the window centred on sample i, cut at the ends of the
\* unsmoothed sequence
WindowAt(i) ==
    LET half == smoothing_window \div 2
        lo == Max(1, i - half)
        hi == Min(Len(classifications), i + half)
    IN [k \in 1..(hi - lo + 1) |-> classifications[lo + k - 1].category]

\* c occurs in the window more often than every other category
ClearMajority(window, c) ==
    /\ \E k \in DOMAIN window : window[k] = c
    /\ \A k \in DOMAIN window :
          window[k] # c => CountOf(window, window[k]) < CountOf(window, c)

\* C26: smoothing leaves the number of samples, the timestamps and the
\* confidences as they were, and gives a sample another category only if that
\* category is the clear majority of the window centred on it; a window without
\* a clear majority leaves the sample's category alone.
SmoothingByMajority ==
    sd_pc = "returned" =>
       /\ Len(sd_smoothed) = Len(classifications)
       /\ \A i \in DOMAIN sd_smoothed :
             /\ sd_smoothed[i].timestamp = classifications[i].timestamp
             /\ sd_smoothed[i].confidence = classifications[i].confidence
             /\ sd_smoothed[i].category # classifications[i].category =>
                   ClearMajority(WindowAt(i), sd_smoothed[i].category)


\* ---- the result of one _merge_short_segments ----

IsShort(seg) == seg.end_time - seg.start_time < min_segment_duration

\* The segment of the result that holds the start of the i-th input segment
HoldingSegment(i) ==
    segments[CHOOSE k \in DOMAIN segments :
                /\ segments[k].start_time <= raw_segments[i].start_time
                /\ raw_segments[i].start_time < segments[k].end_time]

\* The i-th input segment has a neighbour of its own label that stays in the
\* list: one that is long enough, or the first or last segment.
HasLastingTwin(i) ==
    \E j \in {i - 1, i + 1} :
       /\ raw_segments[j].classification = raw_segments[i].classification
       /\ ~IsShort(raw_segments[j]) \/ j \in {1, Len(raw_segments)}

\* C27: for a contiguous list of at least two segments, the result of
\* _merge_short_segments spans the input's range without gap, has no two
\* adjacent segments of one label, begins and ends with the labels the input
\* begins and ends with, and has no short segment between its first and its
\* last; a short inner segment of the input lies in a result segment of its own
\* label if it has a lasting neighbour of that label, and otherwise in one of
\* its own label or in the segment that precedes it.
MergeResult ==
    (sd_pc = "merge" /\ passes = 1 /\ Len(raw_segments) >= 2) =>
       LET n == Len(raw_segments)
           m == Len(segments)
       IN /\ m >= 1
          /\ segments[1].start_time = raw_segments[1].start_time
          /\ segments[m].end_time = raw_segments[n].end_time
          /\ \A k \in 1..(m - 1) :
                /\ segments[k].end_time = segments[k + 1].start_time
                /\ segments[k].classification # segments[k + 1].classification
          /\ segments[1].classification = raw_segments[1].classification
          /\ segments[m].classification = raw_segments[n].classification
          /\ \A k \in 2..(m - 1) : ~IsShort(segments[k])
          /\ \A i \in 2..(n - 1) :
                IsShort(raw_segments[i]) =>
                   /\ \E k \in DOMAIN segments :
                         /\ segments[k].start_time <= raw_segments[i].start_time
                         /\ raw_segments[i].end_time <= segments[k].end_time
                   /\ HoldingSegment(i).end_time >= raw_segments[i].end_time
                   /\ HoldingSegment(i).classification # raw_segments[i].classification =>
                         /\ HoldingSegment(i).start_time < raw_segments[i].start_time
                         /\ ~HasLastingTwin(i)

\* A short first segment has been kept and has absorbed the short segment of
\* another label behind it, which had no neighbour of its own label.
MergeResultWitness ==
    /\ sd_pc = "merge"
    /\ passes = 1
    /\ Len(raw_segments) = 4
    /\ IsShort(raw_segments[1])
    /\ IsShort(raw_segments[2])
    /\ raw_segments[2].classification
          \notin {raw_segments[1].classification, raw_segments[3].classification}
    /\ segments[1].classification = raw_segments[1].classification
    /\ segments[1].end_time = raw_segments[2].end_time


\* ---- the fine pass ----

\* coarse_results of the call in progress
CoarseResults ==
    IF video.opened /\ video.duration > 0
    THEN ClassifyFrames(video, CoarseTimestamps(video.duration, coarse_interval), 1)
    ELSE <<>>

\* fine_timestamps after a coarse pass with the results cr, the existing
\* timestamps removed
FineTimestampsTaken(cr) ==
    FineTimestamps(Transitions(cr), fine_interval)
       \ {cr[i].timestamp : i \in DOMAIN cr}

\* Those of the timestamps fine that lie strictly between the coarse results
\* i - 1 and i
FineBetween(cr, fine, i) ==
    {t \in fine : cr[i - 1].timestamp < t /\ t < cr[i].timestamp}

MaxMoveFiles == 3       \* most video files found below the import folder
MaxExecutions == 2      \* calls of execute_resolution for one resolution

FileNames == {"a.mp4", "b.mp4"}
SubFolders == {"", "sub"}        \* "": the import folder itself

\* A path below base_path: folder, sub-folder, filename
PathOf(folder, sub, name) == <<folder, sub, name>>

\* _create_file_records: original_filename is the basename, filepath the path
\* relative to the input directory
MoveRecord(id, sub, name) ==
    [id |-> id, original_filename |-> name,
     filepath |-> PathOf(FolderUuid, sub, name),
     current_folder_uuid |-> FolderUuid]

NewExecution ==
    [pc |-> "loop", next |-> 1, resolved_folder_name |-> None, returned |-> None,
     executions |-> 1, moves |-> <<>>, fault |-> None]

\* The files of a mapping: the records assigned to it, in the order found
RECURSIVE AssignedTo(_, _, _)
AssignedTo(assigned, w, i) ==
    IF i > Len(assigned) THEN <<>>
    ELSE (IF assigned[i] = w THEN <<i>> ELSE <<>>) \o AssignedTo(assigned, w, i + 1)

InitExecute ==
    /\ SegIdle
    /\ RsIdle
    /\ PipeIdle
    /\ CoIdle
    /\ AcIdle
    /\ LdIdle
    /\ \E n \in 1..MaxMoveFiles :
       \E sub \in [1..n -> SubFolders], name \in [1..n -> FileNames],
          present \in [1..n -> BOOLEAN], assigned \in [1..n -> {0, 1, 2}] :
          /\ \A i, j \in 1..n : (i # j) => <<sub[i], name[i]>> # <<sub[j], name[j]>>
          /\ \E i \in 1..n : assigned[i] = 1
          /\ file_records = List([i \in 1..n |-> MoveRecord(i, sub[i], name[i])])
          /\ disk =
                [files |-> [p \in {PathOf(FolderUuid, sub[i], name[i]) :
                                     i \in {k \in 1..n : present[k]}} |->
                              CHOOSE i \in 1..n :
                                 p = PathOf(FolderUuid, sub[i], name[i])],
                 dirs |-> {<<FolderUuid>>}
                          \cup {<<FolderUuid, sub[i]>> :
                                   i \in {k \in 1..n : sub[k] # ""}}]
          /\ ex_mappings =
                <<[workload_uuid |-> "W1", files |-> AssignedTo(List(assigned), 1, 1),
                   folder_name |-> None]>>
                \o (IF \E i \in 1..n : assigned[i] = 2
                    THEN <<[workload_uuid |-> "W2",
                            files |-> AssignedTo(List(assigned), 2, 1),
                            folder_name |-> None]>>
                    ELSE <<>>)
    /\ ex = NewExecution

\* shutil.move(source_path, target_path) for a file: os.rename, which puts the
\* file in the place of whatever file target_path named
ShutilMove(files, source_path, target_path) ==
    IF source_path = target_path THEN files
    ELSE [p \in (DOMAIN files \ {source_path}) \cup {target_path} |->
             IF p = target_path THEN files[source_path] ELSE files[p]]

\* One iteration of the for loop of move_files_to_workload; record_updated
\* is FALSE when os.chmod raises after the move.
MoveOne(st, id, folder_name, record_updated) ==
    LET file == st.records[id]
        source_path == file.filepath
        target_path == PathOf(folder_name, "", file.original_filename)
    IN IF source_path \in DOMAIN st.files
       THEN [files |-> ShutilMove(st.files, source_path, target_path),
             records |->
                IF record_updated
                THEN [st.records EXCEPT
                        ![id].current_folder_uuid = folder_name,
                        ![id].filepath = target_path]
                ELSE st.records,
             moves |-> Append(st.moves,
                          [id |-> id, content |-> st.files[source_path],
                           source |-> source_path, target |-> target_path])]
       ELSE st

\* The for loop over files[k..upto]
RECURSIVE MoveLoop(_, _, _, _, _)
MoveLoop(files, k, upto, folder_name, st) ==
    IF k > upto THEN st
    ELSE MoveLoop(files, k + 1, upto, folder_name,
                  MoveOne(st, files[k], folder_name, TRUE))

\* What lies directly in a directory: files and sub-directories
Entries(d, dir) ==
    {p \in DOMAIN d.files : p[1] = dir[1] /\ p[2] = ""}
       \cup {x \in d.dirs : Len(x) = 2 /\ x[1] = dir[1]}

\* The body of execute_resolution's loop for the next mapping:
\* move_files_to_workload with the failures in faults let happen, and what the
\* loop does with its result.
ExecuteNext(faults) ==
    /\ ex.pc = "loop"
    /\ ex.next <= Len(ex_mappings)
    /\ LET mapping == ex_mappings[ex.next]
           folder_name == GetFolderName(mapping.workload_uuid)
           made == [disk EXCEPT !.dirs = @ \cup {<<folder_name>>}]
           start == [files |-> disk.files, records |-> file_records,
                     moves |-> ex.moves]
           last == ex.next = Len(ex_mappings)
       IN \/ \* target_dir.mkdir or os.chmod(target_dir) raises
             /\ "mkdir" \in faults
             /\ ex' = [ex EXCEPT !.pc = "raised", !.fault = "mkdir"]
             /\ UNCHANGED <<disk, file_records, ex_mappings>>
          \/ \* shutil.move or os.chmod raises at the k-th file
             \E fault \in faults \cap {"move", "chmod"}, k \in 1..Len(mapping.files) :
                LET before == MoveLoop(mapping.files, 1, k - 1, folder_name, start)
                    st == IF fault = "chmod"
                          THEN MoveOne(before, mapping.files[k], folder_name, FALSE)
                          ELSE before
                IN /\ before.records[mapping.files[k]].filepath \in DOMAIN before.files
                   /\ disk' = [made EXCEPT !.files = st.files]
                   /\ file_records' = st.records
                   /\ ex' = [ex EXCEPT !.pc = "returned", !.returned = None,
                                       !.moves = st.moves, !.fault = fault]
                   /\ UNCHANGED ex_mappings
          \/ \* the loop ends; the source directory is removed if it is empty
             LET st == MoveLoop(mapping.files, 1, Len(mapping.files), folder_name,
                                start)
                 moved == [made EXCEPT !.files = st.files]
                 resolved == IF ex.resolved_folder_name = None THEN folder_name
                             ELSE ex.resolved_folder_name
             IN /\ disk' =
                      IF <<FolderUuid>> \in moved.dirs
                            /\ Entries(moved, <<FolderUuid>>) = {}
                      THEN [moved EXCEPT !.dirs = @ \ {<<FolderUuid>>}]
                      ELSE moved
                /\ file_records' = st.records
                /\ ex_mappings' = [ex_mappings EXCEPT ![ex.next].folder_name = folder_name]
                /\ ex' = [ex EXCEPT
                            !.next = ex.next + 1,
                            !.resolved_folder_name = resolved,
                            !.moves = st.moves,
                            !.pc = IF last THEN "returned" ELSE "loop",
                            !.returned = IF last THEN resolved ELSE None]
    /\ UNCHANGED <<segVars, rsVars, pipeVars, coVars, acVars, ldVars>>

\* The failures of the file system that are explored
ExecuteFaults == {"mkdir", "move", "chmod"}

ExecuteResolution == ExecuteNext(ExecuteFaults)

\* execute_resolution is called again for the same resolution
ExecuteAgain ==
    /\ ex.pc = "returned"
    /\ ex.executions < MaxExecutions
    /\ ex' = [ex EXCEPT !.pc = "loop", !.next = 1, !.resolved_folder_name = None,
                        !.returned = None, !.executions = @ + 1]
    /\ UNCHANGED <<disk, file_records, ex_mappings>>
    /\ UNCHANGED <<segVars, rsVars, pipeVars, coVars, acVars, ldVars>>

NextExecute ==
    \/ ExecuteResolution
    \/ ExecuteAgain

SpecExecute == InitExecute /\ [][NextExecute]_vars


\* The contents of the files there are
Contents == {disk.files[p] : p \in DOMAIN disk.files}

\* The records whose file a shutil.move has moved
MovedIds == {ex.moves[i].id : i \in DOMAIN ex.moves}

\* C29: when execute_resolution has ended, with success or not, a record whose
\* file was moved names the destination folder and <folder>/<original
\* filename>, a record whose file was not moved is as it was created, and the
\* file of every record, if it is anywhere, is where the record says; a
\* missing source file fails nothing, and the import folder is gone only if
\* nothing was left in it.
RecordsNameFiles ==
    ex.pc \in {"returned", "raised"} =>
       /\ \A i \in DOMAIN file_records :
             LET file == file_records[i]
             IN /\ i \in MovedIds =>
                      /\ file.current_folder_uuid \in {"W1", "W2"}
                      /\ file.filepath =
                            PathOf(file.current_folder_uuid, "", file.original_filename)
                /\ i \notin MovedIds =>
                      /\ file.current_folder_uuid = FolderUuid
                      /\ file.filepath[1] = FolderUuid
                /\ i \in Contents =>
                      /\ file.filepath \in DOMAIN disk.files
                      /\ disk.files[file.filepath] = i
       /\ ex.fault = None => ex.returned # None
       /\ <<FolderUuid>> \notin disk.dirs => Entries(disk, <<FolderUuid>>) = {}

\* C30: no two different files are moved onto one destination path, no file
\* that was moved has ceased to exist, and after a successful execution the
\* destination folders hold as many files as were moved.
NoFileLost ==
    /\ \A i, j \in DOMAIN ex.moves :
          ex.moves[i].target = ex.moves[j].target =>
             ex.moves[i].content = ex.moves[j].content
    /\ \A i \in DOMAIN ex.moves : ex.moves[i].content \in Contents
    /\ (ex.pc = "returned" /\ ex.returned # None) =>
          Cardinality({p \in DOMAIN disk.files : p[1] # FolderUuid})
             = Cardinality(MovedIds)


\* execute_resolution on a file system that does not fail
ExecuteResolutionOk == ExecuteNext({})

NextExecuteOk ==
    \/ ExecuteResolutionOk
    \/ ExecuteAgain

SpecExecuteOk == InitExecute /\ [][NextExecuteOk]_vars

====
